---- MODULE Spec2Model ----
(***************************************************************************)
(* SmartlightApp: the schedule engine (app/scheduler.py) together with the *)
(* schedule part of the configuration manager (app/config_manager.py) and  *)
(* the run-now entry of the schedule widget (app/ui/schedule_widget.py).   *)
(*                                                                         *)
(* Representation of Python values                                        *)
(*   - a schedule dict is a function from its keys (strings) to values;    *)
(*     a key that is absent from the dict is absent from the DOMAIN;       *)
(*   - dict objects live in `heap`, indexed by reference, because the      *)
(*     scheduler cache and the configuration list hold the SAME objects;   *)
(*   - a wall-clock datetime is a number of seconds since Monday 00:00:00  *)
(*     of day 0; a date is the ordinal of its calendar day;                *)
(*   - an "HH:MM" string is the pair <<HH, MM>> that split(':') and int    *)
(*     extract from it;                                                    *)
(*   - a `days` value is a tagged record (string / list / None);           *)
(*   - an action's target_id "a/b" is the sequence of its '/'-separated    *)
(*     parts.                                                              *)
(***************************************************************************)
EXTENDS Integers, Sequences, FiniteSets, TLC

VARIABLES
    clock,      \* datetime.now(), in seconds
    heap,       \* reference -> schedule dict (NoObj when not allocated)
    schedules,  \* SchedulerService.schedules: the dict's entry table
    config,     \* ConfigManager.config['schedules']: list of references
    disk,       \* the schedules stored in the configuration file (values)
    nextId,     \* number of schedule ids generated so far
    tick,       \* the scheduler thread: _scheduler_loop / _process_schedules
    trig,       \* per thread, the running call of _trigger_schedule
    ui,         \* the foreground thread: its last operation and its result
    fired,      \* history: the firings made by the tick
    probe,      \* one evaluation of a pure function on chosen inputs
    shutdown,   \* SchedulerService.stop_event and the running call of stop()
    discovery,  \* DiscoveryService: discovery_active, the threads it started and
                \* what its discover_devices calls returned
    hue_bridges,  \* LightManager.hue_bridges: bridge id -> bridge info
    hue_lights,   \* LightManager.hue_lights: light id -> light info
    lifx_lights,  \* LightManager.lifx_lights: light id -> light info
    devices,      \* ConfigManager.config['devices']: the two device lists
    groups,       \* ConfigManager.config['groups']
    lock,         \* LightManager.lock, a threading.RLock
    lmt           \* per thread, the running call into the light manager

lmvars == <<hue_bridges, hue_lights, lifx_lights, devices, groups, lock, lmt>>

svars == <<clock, heap, schedules, config, disk, nextId, tick, trig, ui, fired, probe,
           shutdown, discovery>>

vars == <<svars, lmvars>>

(***************************************************************************)
(* Bounds of the model                                                     *)
(***************************************************************************)
MaxIds == 2          \* schedule objects that ever exist in one run
MaxSecond == 70      \* the run covers seconds 0..MaxSecond of its day
MaxOps == 3          \* foreground operations in one run

(***************************************************************************)
(* Python values                                                           *)
(***************************************************************************)
None == 0 - 1

PyNone == [t |-> "none", s |-> "", l |-> <<>>]
PyStr(x) == [t |-> "str", s |-> x, l |-> <<>>]
PyList(x) == [t |-> "list", s |-> "", l |-> x]

\* bool(v) of a days value: None, '' and [] are falsy
Truthy(v) ==
    CASE v.t = "none" -> FALSE
      [] v.t = "str" -> v.s # ""
      [] v.t = "list" -> v.l # <<>>
      [] OTHER -> TRUE

Has(d, k) == k \in DOMAIN d

\* dict.update(kw)
DictUpdate(d, kw) ==
    [k \in (DOMAIN d) \cup (DOMAIN kw) |-> IF k \in DOMAIN kw THEN kw[k] ELSE d[k]]

SeqToSet(q) == {q[i] : i \in 1..Len(q)}

(***************************************************************************)
(* datetime                                                                *)
(***************************************************************************)
SecondsPerDay == 24 * 60 * 60

Hour(now) == (now % SecondsPerDay) \div 3600
Minute(now) == (now % 3600) \div 60
Weekday(now) == (now \div SecondsPerDay) % 7      \* 0 = Monday
DateOf(now) == now \div SecondsPerDay

(***************************************************************************)
(* SchedulerService: the trigger decision                                  *)
(***************************************************************************)
DebounceSeconds == 60

_time_matches(schedule, now) ==
    IF ~Has(schedule, "time") THEN FALSE
    ELSE LET hour == schedule["time"][1]
             minute == schedule["time"][2]
         IN  Hour(now) = hour /\ Minute(now) = minute

_day_matches(schedule, now) ==
    LET days == schedule["days"]
        weekday == Weekday(now)
    IN  IF days.t = "list" THEN weekday \in SeqToSet(days.l)
        ELSE IF days.t = "str" THEN
            IF days.s = "weekdays" THEN 0 <= weekday /\ weekday <= 4
            ELSE IF days.s = "weekend" THEN weekday >= 5
            ELSE IF days.s = "all" THEN TRUE
            ELSE FALSE
        ELSE FALSE

\* datetime.fromisoformat(None) raises TypeError
_date_raises(schedule) ==
    Has(schedule, "date") /\ schedule["date"] = None

_date_matches(schedule, now) ==
    IF ~Has(schedule, "date") THEN TRUE
    ELSE DateOf(now) = schedule["date"]

\* faulty variant: the debounce also blocks a last_run exactly one minute old
DebounceBlocks_Inclusive(schedule, now) ==
    /\ Has(schedule, "last_run")
    /\ schedule["last_run"] # None
    /\ now - schedule["last_run"] <= DebounceSeconds

\* faulty variant: no debounce
DebounceBlocks_Off(schedule, now) == FALSE

DebounceBlocks(schedule, now) ==
    /\ Has(schedule, "last_run")
    /\ schedule["last_run"] # None
    /\ now - schedule["last_run"] < DebounceSeconds

\* "true" / "false" for the returned bool, "raise" when the evaluation raises
_should_trigger_schedule(schedule, now) ==
    IF ~(IF Has(schedule, "enabled") THEN schedule["enabled"] ELSE TRUE) THEN "false"
    ELSE IF ~_time_matches(schedule, now) THEN "false"
    ELSE IF Has(schedule, "days") /\ ~_day_matches(schedule, now) THEN "false"
    ELSE IF _date_raises(schedule) THEN "raise"
    ELSE IF Has(schedule, "date") /\ ~_date_matches(schedule, now) THEN "false"
    ELSE IF DebounceBlocks(schedule, now) THEN "false"
    ELSE "true"

(***************************************************************************)
(* The heap of schedule dicts                                              *)
(***************************************************************************)
Refs == 1..MaxIds
NoRef == 0
NoObj == [k \in {} |-> 0]

Get(d, k, default) == IF Has(d, k) THEN d[k] ELSE default

(***************************************************************************)
(* SchedulerService.schedules: a CPython dict.  The entry table keeps      *)
(* insertion order; a deleted entry stays in the table as a dead slot.     *)
(***************************************************************************)
LiveIdx(d) == {i \in 1..Len(d) : d[i].live}
DictLen(d) == Cardinality(LiveIdx(d))
DictKeys(d) == {d[i].key : i \in LiveIdx(d)}
DictGet(d, key) ==
    IF key \in DictKeys(d)
    THEN d[CHOOSE i \in LiveIdx(d) : d[i].key = key].ref
    ELSE NoRef
DictSet(d, key, ref) ==
    IF key \in DictKeys(d)
    THEN [i \in 1..Len(d) |-> IF d[i].live /\ d[i].key = key
                              THEN [d[i] EXCEPT !.ref = ref] ELSE d[i]]
    ELSE Append(d, [key |-> key, ref |-> ref, live |-> TRUE])
DictDel(d, key) ==
    [i \in 1..Len(d) |-> IF d[i].live /\ d[i].key = key
                         THEN [d[i] EXCEPT !.live = FALSE] ELSE d[i]]

\* the cache by value: what get_schedules() shows
CacheValue(d, h) == {<<d[i].key, h[d[i].ref]>> : i \in LiveIdx(d)}

(***************************************************************************)
(* ConfigManager: the schedule list                                        *)
(***************************************************************************)
\* index of the first entry whose .get('id') equals id, 0 when there is none
ConfigFind(cfg, h, id) ==
    LET hits == {i \in 1..Len(cfg) : Has(h[cfg[i]], "id") /\ h[cfg[i]]["id"] = id}
    IN  IF hits = {} THEN 0 ELSE CHOOSE i \in hits : \A j \in hits : i <= j

RemoveAt(q, i) == [j \in 1..(Len(q) - 1) |-> IF j < i THEN q[j] ELSE q[j + 1]]

\* add_schedule(schedule_info), schedule_info being the object heap[ref]:
\* the returned bool, the list and the heap after the call
add_schedule_ok(cfg, h, ref) == Has(h[ref], "id")
add_schedule_cfg(cfg, h, ref) ==
    IF ~Has(h[ref], "id") THEN cfg
    ELSE IF ConfigFind(cfg, h, h[ref]["id"]) # 0 THEN cfg
    ELSE Append(cfg, ref)
add_schedule_heap(cfg, h, ref) ==
    IF ~Has(h[ref], "id") THEN h
    ELSE LET i == ConfigFind(cfg, h, h[ref]["id"])
         IN  IF i = 0 THEN h
             ELSE [h EXCEPT ![cfg[i]] = DictUpdate(h[cfg[i]], h[ref])]

\* remove_schedule(schedule_id)
remove_schedule_ok(cfg, h, id) == ConfigFind(cfg, h, id) # 0
remove_schedule_cfg(cfg, h, id) ==
    IF ConfigFind(cfg, h, id) = 0 THEN cfg
    ELSE RemoveAt(cfg, ConfigFind(cfg, h, id))

\* save_config(): json.dump of the list, by value
save_config(cfg, h) == [i \in 1..Len(cfg) |-> h[cfg[i]]]

(***************************************************************************)
(* Schedule actions and SchedulerService._execute_action                   *)
(***************************************************************************)
ActLight == [type |-> "set_state", target_type |-> "light",
             target_id |-> <<"lifx", "l1">>, state |-> [on |-> TRUE]]
ActBadTarget == [type |-> "set_state", target_type |-> "light",
                 target_id |-> <<"l1">>, state |-> [on |-> TRUE]]
ActGroup == [type |-> "set_state", target_type |-> "group",
             target_id |-> <<"g1">>, state |-> [on |-> TRUE]]
ActAll == [type |-> "set_state", target_type |-> "all",
           target_id |-> <<>>, state |-> [on |-> FALSE]]

\* what a call into the light manager can do: return True, return False, raise
LmOutcomes == {"true", "false", "raise"}

\* the statements inside the try block: "none" when no light-manager call is
\* made, "ValueError" when the target_id does not unpack, else the call's
\* outcome ("raise": the light manager raised)
ActionBody(action, lm) ==
    IF action.type # "set_state" THEN "none"
    ELSE IF action.target_type = "light" THEN
        IF Len(action.target_id) # 2 THEN "ValueError" \* unpacking split('/')
        ELSE lm                                        \* set_light_state
    ELSE IF action.target_type = "group" THEN lm       \* set_group_state
    ELSE IF action.target_type = "all" THEN
        IF Has(action.state, "on") THEN lm ELSE "none" \* set_all_lights
    ELSE "none"

\* "ok": the call returned True or nothing was to do; "false": it returned
\* False; "caught ...": the except clause logged the exception; "escaped":
\* an exception left _execute_action
\* faulty variant: no try/except around the action
_execute_action_NoTry(action, lm) ==
    LET r == ActionBody(action, lm)
    IN  IF r \in {"raise", "ValueError"} THEN "escaped"
        ELSE IF r = "false" THEN "false"
        ELSE "ok"

_execute_action(action, lm) ==
    LET r == ActionBody(action, lm)
    IN  IF r = "raise" THEN "caught LmError"
        ELSE IF r = "ValueError" THEN "caught ValueError"
        ELSE IF r = "false" THEN "false"
        ELSE "ok"

(***************************************************************************)
(* Threads and the frame of a running _trigger_schedule                    *)
(***************************************************************************)
Threads == {"bg", "fg"}

NoFrame == [pc |-> "none", key |-> 0, ref |-> NoRef, t0 |-> 0, acts |-> <<>>,
            ai |-> 0, log |-> <<>>, escaped |-> FALSE]

Ev(e, i, r, v) == [e |-> e, i |-> i, r |-> r, v |-> v]

IdleTick == [pc |-> "sleep", now |-> 0, pos |-> 0, used |-> 0, remaining |-> 0,
             startKeys |-> {}, seen |-> {}, aborted |-> FALSE]

NoArgs == [name |-> "", time |-> <<0, 0>>, actions |-> <<>>, days |-> PyNone,
           date |-> None, enabled |-> TRUE]

IdleUi == [ops |-> 0, op |-> "none", key |-> 0, ok |-> TRUE, pfail |-> FALSE,
           same |-> TRUE, args |-> NoArgs]

NoProbe == [schedule |-> NoObj, now |-> 0, out |-> "none"]

\* stop_event is clear and stop() has not been called
NoStop == [stop_event |-> FALSE, pc |-> "idle", t0 |-> 0]

\* DiscoveryService.__init__: discovery_active = False, no thread
NoDiscovery == [discovery_active |-> FALSE, threads |-> <<>>, returned |-> <<>>]

(***************************************************************************)
(* Inputs                                                                  *)
(***************************************************************************)
Steps == {30}                \* how far the clock moves in one step
StartDays == {0, 5}          \* the run starts on a Monday or on a Saturday

CreateArgs ==
    { [name |-> "wake", time |-> <<0, 0>>, actions |-> <<ActBadTarget, ActLight>>,
       days |-> PyStr("weekdays"), date |-> None, enabled |-> TRUE],
      [name |-> "mwf", time |-> <<0, 0>>, actions |-> <<ActLight>>,
       days |-> PyList(<<0, 2, 4>>), date |-> 0, enabled |-> TRUE],
      [name |-> "custom", time |-> <<0, 1>>, actions |-> <<ActAll>>,
       days |-> PyList(<<>>), date |-> None, enabled |-> FALSE],
      [name |-> "daily", time |-> <<0, 1>>, actions |-> <<ActGroup, ActAll>>,
       days |-> PyNone, date |-> None, enabled |-> TRUE] }

\* an id no uuid4() call of the run returns
ForeignId == MaxIds + 1

UpdateKwargs ==
    { [days |-> PyStr("weekend"), date |-> None],
      [date |-> 0, days |-> PyNone],
      [name |-> "renamed", time |-> <<0, 1>>],
      [id |-> ForeignId] }

\* the schedules the configuration file holds when the application starts
LoadedConfigs ==
    { <<>>,
      << [id |-> 1, name |-> "saved", time |-> <<0, 0>>,
          actions |-> <<ActLight, ActBadTarget>>, enabled |-> TRUE,
          days |-> PyStr("all")] >>,
      << [id |-> 1, name |-> "off", time |-> <<0, 0>>,
          actions |-> <<ActLight>>, enabled |-> FALSE] >> }

(***************************************************************************)
(* LightManager (app/light_manager.py) and the two protocol handlers it    *)
(* owns.                                                                   *)
(*   - hue_bridges, hue_lights and lifx_lights are Python dicts: sequences *)
(*     of entries [key, value] in insertion order (no entry is ever        *)
(*     deleted from them);                                                 *)
(*   - a bridge or light id is the sequence of its '_'-separated parts, so *)
(*     f"{bridge_id}_{light_id}" is a concatenation and split('_')[1] is   *)
(*     the second part;                                                    *)
(*   - the device lists of the configuration hold the very dict objects    *)
(*     the maps hold (add_device appends the object it is given), so a     *)
(*     list is the sequence of the ids of its objects;                     *)
(*   - a bridge, a light, a state and a patch are dicts: functions from    *)
(*     their keys.                                                         *)
(***************************************************************************)
MapHas(m, k) == \E i \in 1..Len(m) : m[i].key = k
MapGet(m, k) == m[CHOOSE i \in 1..Len(m) : m[i].key = k].value
MapPut(m, k, v) ==
    IF MapHas(m, k)
    THEN [i \in 1..Len(m) |-> IF m[i].key = k THEN [m[i] EXCEPT !.value = v] ELSE m[i]]
    ELSE Append(m, [key |-> k, value |-> v])
MapKeys(m) == [i \in 1..Len(m) |-> m[i].key]

\* list.append of an object the list may already hold under that id
ListAdd(l, id) == IF id \in SeqToSet(l) THEN l ELSE Append(l, id)

(***************************************************************************)
(* protocols/utils.py: colorsys in integer arithmetic.  h is in degrees,   *)
(* s and v in percent; exact when the divisions below are exact, which     *)
(* holds for the colours of this model.                                    *)
(***************************************************************************)
Max3(a, b, c) == IF a >= b /\ a >= c THEN a ELSE IF b >= c THEN b ELSE c
Min3(a, b, c) == IF a <= b /\ a <= c THEN a ELSE IF b <= c THEN b ELSE c

\* <<int(h), int(s * 100), int(v * 100)>> of rgb_to_hsv(r, g, b)
rgb_to_hsv(rgb) ==
    LET r == rgb[1]
        g == rgb[2]
        b == rgb[3]
        maxc == Max3(r, g, b)
        minc == Min3(r, g, b)
        d == maxc - minc
        v == (maxc * 100) \div 255
    IN  IF d = 0 THEN <<0, 0, v>>
        ELSE LET s == (d * 100) \div maxc
                 h == IF r = maxc THEN (60 * (g - b)) \div d
                      ELSE IF g = maxc THEN 120 + (60 * (b - r)) \div d
                      ELSE 240 + (60 * (r - g)) \div d
             IN  <<h % 360, s, v>>

\* hsv_to_rgb(h, s / 100, v / 100), each channel int(c * 255) clamped
hsv_to_rgb(h, s, v) ==
    LET i == (h \div 60) % 6
        f == h % 60
        vv == (255 * v) \div 100
        p == (255 * v * (100 - s)) \div 10000
        q == (255 * v * (6000 - s * f)) \div 600000
        t == (255 * v * (6000 - s * (60 - f))) \div 600000
    IN  IF s = 0 THEN <<vv, vv, vv>>
        ELSE CASE i = 0 -> <<vv, t, p>>
               [] i = 1 -> <<q, vv, p>>
               [] i = 2 -> <<p, vv, t>>
               [] i = 3 -> <<p, q, vv>>
               [] i = 4 -> <<t, p, vv>>
               [] OTHER -> <<vv, p, q>>

(***************************************************************************)
(* HueProtocol.normalize_state: it reads the keys of the Hue API ('bri',   *)
(* 'ct', 'xy', 'hue' with 'sat').  No state of this model carries 'xy'.    *)
(***************************************************************************)
hue_normalize_state(state) ==
    LET keys == {k \in {"on", "reachable"} : Has(state, k)}
                \cup (IF Has(state, "bri") THEN {"brightness"} ELSE {})
                \cup (IF Has(state, "ct") /\ Get(state, "ct", 0) > 0
                      THEN {"color_temp"} ELSE {})
                \cup (IF Has(state, "hue") /\ Has(state, "sat")
                      THEN {"hue", "saturation"} ELSE {})
    IN  [k \in keys |->
            CASE k = "brightness" -> (state["bri"] * 100) \div 254
              [] k = "color_temp" -> 1000000 \div state["ct"]
              [] k = "hue" -> (state["hue"] * 360) \div 65535
              [] k = "saturation" -> (state["sat"] * 100) \div 254
              [] OTHER -> state[k]]

(***************************************************************************)
(* HueProtocol._convert_to_hue_state: the canonical state in the keys and  *)
(* ranges of the Hue API.  int() of a positive quotient is its floor.  No  *)
(* state handed to it in this model carries rgb_color.                     *)
(***************************************************************************)
\* int(1000000 / kelvin)
kelvin_to_mirek(kelvin) == 1000000 \div kelvin

_convert_to_hue_state(state) ==
    LET keys == {k \in {"on"} : Has(state, k)}
                \cup (IF Has(state, "brightness") THEN {"bri"} ELSE {})
                \cup (IF Has(state, "color_temp") /\ Get(state, "color_temp", 0) > 0
                      THEN {"ct"} ELSE {})
                \cup (IF Has(state, "hue") /\ Has(state, "saturation")
                      THEN {"hue", "sat"} ELSE {})
    IN  [k \in keys |->
            CASE k = "bri" -> (state["brightness"] * 254) \div 100
              [] k = "ct" -> kelvin_to_mirek(state["color_temp"])
              [] k = "hue" -> (state["hue"] * 65535) \div 360
              [] k = "sat" -> (state["saturation"] * 254) \div 100
              [] OTHER -> state[k]]

(***************************************************************************)
(* LifxProtocol.normalize_state                                            *)
(***************************************************************************)
lifx_normalize_state(state) ==
    LET direct == [k \in {k \in {"on", "brightness", "color_temp", "hue", "saturation"} :
                            Has(state, k)} |-> state[k]]
        fromRgb == /\ Has(state, "rgb_color")
                   /\ ~Has(direct, "hue")
                   /\ ~Has(direct, "saturation")
                   /\ Len(Get(state, "rgb_color", <<>>)) = 3
        hsv == rgb_to_hsv(state["rgb_color"])
        n1 == IF ~fromRgb THEN direct
              ELSE IF Has(direct, "brightness")
              THEN DictUpdate(direct, [hue |-> hsv[1], saturation |-> hsv[2]])
              ELSE DictUpdate(direct, [hue |-> hsv[1], saturation |-> hsv[2],
                                       brightness |-> hsv[3]])
        toRgb == Has(n1, "hue") /\ Has(n1, "saturation") /\ ~Has(state, "rgb_color")
    IN  IF toRgb
        THEN DictUpdate(n1, [rgb_color |->
                 hsv_to_rgb(n1["hue"], n1["saturation"], Get(n1, "brightness", 100))])
        ELSE n1

(***************************************************************************)
(* LifxProtocol as the light manager uses it.  The manager's handler never *)
(* runs discover_lights (the discovery service has a handler of its own),  *)
(* so its `devices` cache stays empty and the `mac in self.devices`        *)
(* branches are never taken.                                               *)
(***************************************************************************)
SimulatedState ==
    [on |-> TRUE, brightness |-> 75, color_temp |-> 3000, hue |-> 240,
     saturation |-> 40, rgb_color |-> <<153, 153, 255>>, reachable |-> TRUE]

lifx_get_light_state(light_info) ==
    IF ~Has(light_info, "ip") THEN NoObj ELSE SimulatedState

lifx_set_light_state(light_info, state) == Has(light_info, "ip")

(***************************************************************************)
(* LightManager: the handlers as functions of the maps.  A result carries  *)
(* the returned bool, the new maps and the protocol calls that were made.  *)
(***************************************************************************)
\* faulty variant: a plain `else:` takes every other protocol for LIFX
IsLifx_Else(protocol) == protocol # "hue"

\* elif protocol == PROTOCOL_LIFX
IsLifx(protocol) == protocol = "lifx"

ProtoCall(fn, protocol, id, state, ret) ==
    [fn |-> fn, protocol |-> protocol, id |-> id, state |-> state, ret |-> ret]

\* a call of the Hue client: bridge['ip'], bridge['username'] and the light id
HueCall(fn, bridge, id, state, ret) ==
    DictUpdate(ProtoCall(fn, "hue", id, state, ret),
               [bridge_ip |-> bridge["ip"], username |-> bridge["username"]])

\* actual_light_id = light_id.split('_')[1]
actual_light_id(light_id) == <<light_id[2]>>

\* `sent` is what HueProtocol.set_light_state returns: True when the bridge
\* accepted the write, False on any transport or API error
set_light_state(hb, hl, ll, protocol, light_id, state, sent) ==
    LET fail == [ok |-> FALSE, hl |-> hl, ll |-> ll, calls |-> <<>>]
    IN  IF protocol = "hue" THEN
            IF ~MapHas(hl, light_id) THEN fail
            ELSE LET light == MapGet(hl, light_id)
                 IN  IF light = NoObj \/ ~Has(light, "bridge_id") THEN fail
                     ELSE IF ~MapHas(hb, light["bridge_id"]) THEN fail
                     ELSE LET bridge == MapGet(hb, light["bridge_id"])
                          IN  IF bridge = NoObj \/ ~Has(bridge, "ip")
                                 \/ ~Has(bridge, "username") THEN fail
                              \* IndexError of split('_')[1], caught below
                              ELSE IF Len(light_id) < 2 THEN fail
                              ELSE LET call == HueCall("hue.set_light_state", bridge,
                                                    actual_light_id(light_id), state, sent)
                                   IN  IF sent
                                       THEN [ok |-> TRUE,
                                             hl |-> MapPut(hl, light_id,
                                                 DictUpdate(light, hue_normalize_state(state))),
                                             ll |-> ll, calls |-> <<call>>]
                                       ELSE [fail EXCEPT !.calls = <<call>>]
        ELSE IF IsLifx(protocol) THEN
            IF ~MapHas(ll, light_id) THEN fail
            ELSE LET light == MapGet(ll, light_id)
                 IN  IF light = NoObj THEN fail
                     ELSE LET success == lifx_set_light_state(light, state)
                              call == ProtoCall("lifx.set_light_state", "lifx",
                                           light_id, state, success)
                          IN  IF success
                              THEN [ok |-> TRUE, hl |-> hl,
                                    ll |-> MapPut(ll, light_id,
                                        DictUpdate(light, lifx_normalize_state(state))),
                                    calls |-> <<call>>]
                              ELSE [fail EXCEPT !.calls = <<call>>]
        ELSE fail

\* `report` is what HueProtocol.get_light_state returns: the normalized
\* state of the light, or {} on any transport error
refresh_light(hb, hl, ll, protocol, light_id, report) ==
    LET fail == [ok |-> FALSE, hl |-> hl, ll |-> ll, calls |-> <<>>]
    IN  IF protocol = "hue" THEN
            IF ~MapHas(hl, light_id) THEN fail
            ELSE LET light == MapGet(hl, light_id)
                 IN  IF light = NoObj \/ ~Has(light, "bridge_id") THEN fail
                     ELSE IF ~MapHas(hb, light["bridge_id"]) THEN fail
                     ELSE LET bridge == MapGet(hb, light["bridge_id"])
                          IN  IF bridge = NoObj \/ ~Has(bridge, "ip")
                                 \/ ~Has(bridge, "username") THEN fail
                              ELSE IF Len(light_id) < 2 THEN fail
                              ELSE LET call == HueCall("hue.get_light_state", bridge,
                                                    actual_light_id(light_id), report,
                                                    report # NoObj)
                                   IN  IF report # NoObj
                                       THEN [ok |-> TRUE,
                                             hl |-> MapPut(hl, light_id,
                                                           DictUpdate(light, report)),
                                             ll |-> ll, calls |-> <<call>>]
                                       ELSE [fail EXCEPT !.calls = <<call>>]
        ELSE IF IsLifx(protocol) THEN
            IF ~MapHas(ll, light_id) THEN fail
            ELSE LET light == MapGet(ll, light_id)
                 IN  IF light = NoObj THEN fail
                     ELSE LET state == lifx_get_light_state(light)
                              call == ProtoCall("lifx.get_light_state", "lifx",
                                           light_id, state, state # NoObj)
                          IN  IF state # NoObj
                              THEN [ok |-> TRUE, hl |-> hl,
                                    ll |-> MapPut(ll, light_id, DictUpdate(light, state)),
                                    calls |-> <<call>>]
                              ELSE [fail EXCEPT !.calls = <<call>>]
        ELSE fail

\* faulty variant: the state is fetched for every record
ShouldProbe_Always(info) == TRUE

\* add_lifx_light: if 'mac' in light_info or 'ip' in light_info
ShouldProbe(info) == Has(info, "mac") \/ Has(info, "ip")

\* add_lifx_light, whole
add_lifx_light(ll, dev, light_info) ==
    IF ~Has(light_info, "id")
    THEN [ok |-> FALSE, ll |-> ll, dev |-> dev, calls |-> <<>>]
    ELSE LET light_id == light_info["id"]
             info == IF Has(light_info, "protocol") THEN light_info
                     ELSE DictUpdate(light_info, [protocol |-> "lifx"])
             stored == IF MapHas(ll, light_id)
                       THEN DictUpdate(MapGet(ll, light_id), info) ELSE info
             probed == ShouldProbe(info)
             state == IF probed THEN lifx_get_light_state(info) ELSE NoObj
             merged == IF state # NoObj THEN DictUpdate(stored, state) ELSE stored
         IN  [ok |-> TRUE,
              ll |-> MapPut(ll, light_id, merged),
              dev |-> [dev EXCEPT !.lifx_lights = ListAdd(@, light_id)],
              calls |-> IF probed
                        THEN <<ProtoCall("lifx.get_light_state", "lifx", light_id, state,
                                    state # NoObj)>>
                        ELSE <<>>]

\* add_hue_bridge, lines 60-71: the upsert of the bridge and add_device
UpsertBridge(hb, dev, bridge_info) ==
    LET bridge_id == bridge_info["id"]
    IN  [ok |-> TRUE,
         hb |-> IF MapHas(hb, bridge_id)
                THEN MapPut(hb, bridge_id, DictUpdate(MapGet(hb, bridge_id), bridge_info))
                ELSE MapPut(hb, bridge_id, bridge_info),
         dev |-> [dev EXCEPT !.hue_bridges = ListAdd(@, bridge_id)]]

\* faulty variant: a record without id is stored under the empty id
add_hue_bridge_upsert_DefaultId(hb, dev, bridge_info) ==
    IF ~Has(bridge_info, "id")
    THEN UpsertBridge(hb, dev, DictUpdate(bridge_info, [id |-> <<"">>]))
    ELSE UpsertBridge(hb, dev, bridge_info)

\* add_hue_bridge up to the try block: the id check, then the upsert
add_hue_bridge_upsert(hb, dev, bridge_info) ==
    IF ~Has(bridge_info, "id")
    THEN [ok |-> FALSE, hb |-> hb, dev |-> dev]
    ELSE UpsertBridge(hb, dev, bridge_info)

\* one turn of the loop over the fetched lights
store_hue_light(hl, bridge_id, light_id, light_data) ==
    LET unique_id == bridge_id \o light_id
    IN  MapPut(hl, unique_id,
               DictUpdate(light_data, [bridge_id |-> bridge_id, id |-> unique_id,
                                       protocol |-> "hue"]))

\* light.get('state', {}).get('reachable', False)
Reachable(light) == Get(Get(light, "state", NoObj), "reachable", FALSE)

CountReachable(m) == Cardinality({i \in 1..Len(m) : Reachable(m[i].value)})

get_connected_device_count(hl, ll) == CountReachable(hl) + CountReachable(ll)

get_total_device_count(hl, ll) == Len(hl) + Len(ll)

\* get_light: the record, or None (NoObj here) when the id is not tracked
get_light(hl, ll, protocol, light_id) ==
    IF protocol = "hue" THEN (IF MapHas(hl, light_id) THEN MapGet(hl, light_id) ELSE NoObj)
    ELSE IF IsLifx(protocol)
    THEN (IF MapHas(ll, light_id) THEN MapGet(ll, light_id) ELSE NoObj)
    ELSE NoObj

\* get_all_lights: both maps in one dict, LIFX entries over Hue ones
RECURSIVE MapUpdate(_, _, _)
MapUpdate(m, src, i) ==
    IF i > Len(src) THEN m
    ELSE MapUpdate(MapPut(m, src[i].key, src[i].value), src, i + 1)

get_all_lights(hl, ll) == MapUpdate(MapUpdate(<<>>, hl, 1), ll, 1)

\* the group with that id, or NoObj
FindGroup(gs, group_id) ==
    IF \E i \in 1..Len(gs) : gs[i]["id"] = group_id
    THEN gs[CHOOSE i \in 1..Len(gs) : gs[i]["id"] = group_id]
    ELSE NoObj

\* _execute_action: the call into the light manager an action leads to
ActionCall(action) ==
    IF action.type # "set_state" THEN [op |-> "none"]
    ELSE IF action.target_type = "light" THEN
        IF Len(action.target_id) # 2 THEN [op |-> "ValueError"]
        \* a light id without '_' is a single part
        ELSE [op |-> "set_light_state", protocol |-> action.target_id[1],
              light_id |-> <<action.target_id[2]>>, state |-> action.state]
    ELSE IF action.target_type = "group" THEN
        [op |-> "set_group_state", group_id |-> action.target_id, state |-> action.state]
    ELSE IF action.target_type = "all" THEN
        IF Has(action.state, "on")
        THEN [op |-> "set_all_lights", on |-> action.state["on"]]
        ELSE [op |-> "none"]
    ELSE [op |-> "none"]

(***************************************************************************)
(* The running call of a thread into the light manager                     *)
(***************************************************************************)
LmThreads == {"fg", "bg", "disc"}

NoLock == [owner |-> "", count |-> 0]

\* faulty variant: a threading.Lock, which its owner cannot take again
CanAcquire_Lock(l, t) == l.count = 0

\* threading.RLock.acquire: free, or already owned by the caller
CanAcquire(l, t) == l.count = 0 \/ l.owner = t

Acquire(l, t) == [owner |-> t, count |-> l.count + 1]
Release(l) == IF l.count = 1 THEN NoLock ELSE [l EXCEPT !.count = @ - 1]

NoDevices == [hue_bridges |-> <<>>, lifx_lights |-> <<>>]

NoSnap == [hb |-> <<>>, hl |-> <<>>, ll |-> <<>>, dev |-> NoDevices]

IdleLm == [pc |-> "idle", op |-> "none", args |-> NoObj, ok |-> FALSE, val |-> 0,
           got |-> NoObj, exc |-> "", raised |-> FALSE, done |-> FALSE,
           pre |-> NoSnap, calls |-> <<>>, todo |-> <<>>, tried |-> <<>>,
           mid |-> FALSE]

\* LightManager.__init__, on a configuration with no stored device
InitLightManager ==
    /\ hue_bridges = <<>>
    /\ hue_lights = <<>>
    /\ lifx_lights = <<>>
    /\ devices = NoDevices
    /\ groups = <<>>
    /\ lock = NoLock
    /\ lmt = [t \in LmThreads |-> IdleLm]

(***************************************************************************)
(* Initial state: ConfigManager.load_config() has read the file and        *)
(* SchedulerService.__init__ has run _load_schedules and started the       *)
(* scheduler thread.                                                       *)
(***************************************************************************)
\* _load_schedules: every list element with an 'id' enters the cache
RECURSIVE _load_schedules(_, _, _)
_load_schedules(cfg, h, i) ==
    IF i > Len(cfg) THEN <<>>
    ELSE LET rest == _load_schedules(cfg, h, i + 1)
         IN  IF Has(h[cfg[i]], "id")
             THEN <<[key |-> h[cfg[i]]["id"], ref |-> cfg[i], live |-> TRUE]>> \o rest
             ELSE rest

Init ==
    /\ \E day \in StartDays : clock = day * SecondsPerDay
    /\ \E loaded \in LoadedConfigs :
         /\ heap = [r \in Refs |-> IF r <= Len(loaded) THEN loaded[r] ELSE NoObj]
         /\ config = [i \in 1..Len(loaded) |-> i]
         /\ disk = loaded
         /\ nextId = Len(loaded)
    /\ schedules = _load_schedules(config, heap, 1)
    /\ tick = IdleTick
    /\ trig = [t \in Threads |-> NoFrame]
    /\ ui = IdleUi
    /\ fired = {}
    /\ shutdown = NoStop
    /\ discovery = NoDiscovery
    /\ probe = NoProbe
    /\ InitLightManager

(***************************************************************************)
(* The wall clock                                                          *)
(***************************************************************************)
Advance ==
    /\ \E d \in Steps :
         /\ (clock % SecondsPerDay) + d <= MaxSecond
         /\ clock' = clock + d
    /\ UNCHANGED <<heap, schedules, config, disk, nextId, tick, trig, ui, fired, probe, shutdown, discovery, lmvars>>

(***************************************************************************)
(* _trigger_schedule, step by step                                         *)
(***************************************************************************)
\* the frame after `schedule = self.schedules.get(schedule_id)` and
\* `schedule['last_run'] = datetime.now().isoformat()`
TriggerFrame(key) ==
    [NoFrame EXCEPT !.pc = "persist", !.key = key,
                    !.ref = DictGet(schedules, key), !.t0 = clock]

\* faulty variant: the notification is emitted after the first action
AfterAction_EmitEarly(ai, acts) == "emit"

\* where _trigger_schedule goes after action number ai of acts
AfterAction(ai, acts) == IF ai >= Len(acts) THEN "emit" ELSE "act"

\* self.config_manager.add_schedule(schedule); actions = schedule.get('actions', [])
TrigPersist(t) ==
    /\ trig[t].pc = "persist"
    /\ LET f == trig[t]
           h2 == add_schedule_heap(config, heap, f.ref)
           acts == Get(h2[f.ref], "actions", <<>>)
       IN  /\ config' = add_schedule_cfg(config, heap, f.ref)
           /\ heap' = h2
           /\ trig' = [trig EXCEPT ![t] =
                  [f EXCEPT !.pc = AfterAction(0, acts),
                            !.acts = acts, !.ai = 1,
                            !.log = Append(f.log,
                                Ev("persist", 0, "ok", Get(heap[f.ref], "last_run", None)))]]
    /\ UNCHANGED <<clock, schedules, disk, nextId, tick, ui, fired, probe, shutdown, discovery, lmvars>>

\* one turn of `for action in actions: self._execute_action(action)`
TrigAction(t) ==
    /\ trig[t].pc = "act"
    /\ \E lm \in LmOutcomes :
         LET f == trig[t]
             r == _execute_action(f.acts[f.ai], lm)
         IN  IF r = "escaped"
             THEN /\ trig' = [trig EXCEPT ![t] = [f EXCEPT !.pc = "none", !.escaped = TRUE]]
                  /\ tick' = IF t = "bg"
                             THEN [tick EXCEPT !.pc = "sleep", !.aborted = TRUE]
                             ELSE tick
             ELSE /\ trig' = [trig EXCEPT ![t] =
                        [f EXCEPT !.pc = AfterAction(f.ai, f.acts),
                                  !.ai = f.ai + 1,
                                  !.log = Append(f.log, Ev("action", f.ai, r, 0))]]
                  /\ tick' = tick
    /\ UNCHANGED <<clock, heap, schedules, config, disk, nextId, ui, fired, probe, shutdown, discovery, lmvars>>

\* self.schedule_triggered.emit(schedule_id)
TrigEmit(t) ==
    /\ trig[t].pc = "emit"
    /\ trig' = [trig EXCEPT ![t] =
           [@ EXCEPT !.pc = "none", !.log = Append(@, Ev("emit", 0, "ok", 0))]]
    /\ UNCHANGED <<clock, heap, schedules, config, disk, nextId, tick, ui, fired, probe, shutdown, discovery, lmvars>>

(***************************************************************************)
(* The scheduler thread                                                    *)
(***************************************************************************)
\* _scheduler_loop wakes up: now = datetime.now(); iter(self.schedules.items())
TickStart ==
    /\ tick.pc = "sleep"
    /\ tick' = [pc |-> "iter", now |-> clock, pos |-> 1,
                used |-> DictLen(schedules), remaining |-> DictLen(schedules),
                startKeys |-> DictKeys(schedules), seen |-> {}, aborted |-> FALSE]
    /\ trig' = [trig EXCEPT !["bg"] = NoFrame]
    /\ UNCHANGED <<clock, heap, schedules, config, disk, nextId, ui, fired, probe, shutdown, discovery, lmvars>>

\* the first live slot at or after pos, 0 when the table is exhausted
NextSlot(d, pos) ==
    LET live == {i \in LiveIdx(d) : i >= pos}
    IN  IF live = {} THEN 0 ELSE CHOOSE i \in live : \A j \in live : i <= j

\* the dict iterator's next(): "changed" is the RuntimeError CPython raises when
\* the dict was resized or its keys were replaced under the iterator
IterNext(d, it) ==
    IF it.used # DictLen(d) THEN "changed"
    ELSE IF NextSlot(d, it.pos) = 0 THEN "stop"
    ELSE IF it.remaining = 0 THEN "changed"
    ELSE "item"

\* one turn of the loop of _process_schedules, up to the first statements of
\* _trigger_schedule
TickNext ==
    /\ tick.pc = "iter"
    /\ trig["bg"].pc = "none"
    /\ LET step == IterNext(schedules, tick)
           i == NextSlot(schedules, tick.pos)
       IN  IF step = "changed"
           THEN /\ tick' = [tick EXCEPT !.pc = "sleep", !.aborted = TRUE]
                /\ trig' = [trig EXCEPT !["bg"] = NoFrame]
                /\ UNCHANGED <<heap, fired>>
           ELSE IF step = "stop"
           THEN /\ tick' = [tick EXCEPT !.pc = "sleep"]
                /\ trig' = [trig EXCEPT !["bg"] = NoFrame]
                /\ UNCHANGED <<heap, fired>>
           ELSE LET key == schedules[i].key
                    ref == schedules[i].ref
                    due == _should_trigger_schedule(heap[ref], tick.now)
                    advanced == [tick EXCEPT !.pos = i + 1,
                                             !.remaining = tick.remaining - 1,
                                             !.seen = tick.seen \cup {key}]
                IN  IF due = "raise"
                    THEN /\ tick' = [advanced EXCEPT !.pc = "sleep", !.aborted = TRUE]
                         /\ trig' = [trig EXCEPT !["bg"] = NoFrame]
                         /\ UNCHANGED <<heap, fired>>
                    ELSE IF due = "false"
                    THEN /\ tick' = advanced
                         /\ trig' = [trig EXCEPT !["bg"] = NoFrame]
                         /\ UNCHANGED <<heap, fired>>
                    ELSE /\ tick' = advanced
                         /\ heap' = [heap EXCEPT ![ref] =
                                DictUpdate(heap[ref], [last_run |-> clock])]
                         /\ trig' = [trig EXCEPT !["bg"] = TriggerFrame(key)]
                         /\ fired' = fired \cup
                                {[key |-> key, now |-> tick.now, t |-> clock]}
    /\ UNCHANGED <<clock, schedules, config, disk, nextId, ui, probe, shutdown, discovery, lmvars>>

(***************************************************************************)
(* The foreground thread: the operations of SchedulerService the schedule  *)
(* widget calls, and the saves of the configuration file                   *)
(***************************************************************************)
FgReady ==
    /\ trig["fg"].pc = "none"
    /\ ui.ops < MaxOps

Done(op, key, ok, pfail, same, args) ==
    [ops |-> ui.ops + 1, op |-> op, key |-> key, ok |-> ok, pfail |-> pfail,
     same |-> same, args |-> args]

\* schedule_info as create_schedule builds it
NewSchedule(id, a) ==
    LET base == [id |-> id, name |-> a.name, time |-> a.time,
                 actions |-> a.actions, enabled |-> a.enabled]
        withDays == IF Truthy(a.days) THEN DictUpdate(base, [days |-> a.days])
                    ELSE base
    IN  IF a.date # None THEN DictUpdate(withDays, [date |-> a.date]) ELSE withDays

create_schedule(a) ==
    LET id == nextId + 1
        h1 == [heap EXCEPT ![id] = NewSchedule(id, a)]
        ok == add_schedule_ok(config, h1, id)
    IN  /\ nextId < MaxIds
        /\ nextId' = id
        /\ config' = add_schedule_cfg(config, h1, id)
        /\ heap' = IF ok THEN add_schedule_heap(config, h1, id) ELSE heap
        /\ schedules' = IF ok THEN DictSet(schedules, id, id) ELSE schedules
        /\ ui' = Done("create", IF ok THEN id ELSE None, ok, ~ok,
                      CacheValue(schedules', heap') = CacheValue(schedules, heap), a)
        /\ trig' = [trig EXCEPT !["fg"] = NoFrame]
        /\ UNCHANGED <<clock, disk, tick, fired, probe, shutdown, discovery, lmvars>>

update_schedule(op, key, kw) ==
    IF key \notin DictKeys(schedules)
    THEN /\ ui' = Done(op, key, FALSE, FALSE, TRUE, NoArgs)
         /\ trig' = [trig EXCEPT !["fg"] = NoFrame]
         /\ UNCHANGED <<clock, heap, schedules, config, disk, nextId, tick, fired, probe, shutdown, discovery, lmvars>>
    ELSE LET ref == DictGet(schedules, key)
             h1 == [heap EXCEPT ![ref] = DictUpdate(heap[ref], kw)]
             ok == add_schedule_ok(config, h1, ref)
         IN  /\ heap' = add_schedule_heap(config, h1, ref)
             /\ config' = add_schedule_cfg(config, h1, ref)
             /\ ui' = Done(op, key, ok, ~ok,
                           CacheValue(schedules, heap') = CacheValue(schedules, heap),
                           NoArgs)
             /\ trig' = [trig EXCEPT !["fg"] = NoFrame]
             /\ UNCHANGED <<clock, schedules, disk, nextId, tick, fired, probe, shutdown, discovery, lmvars>>

\* faulty variant: the cache entry is deleted whatever remove_schedule returned
delete_from_cache_Always(ok, d, key) == DictDel(d, key)

\* `if self.config_manager.remove_schedule(schedule_id): del self.schedules[schedule_id]`
delete_from_cache(ok, d, key) == IF ok THEN DictDel(d, key) ELSE d

delete_schedule(key) ==
    IF key \notin DictKeys(schedules)
    THEN /\ ui' = Done("delete", key, FALSE, FALSE, TRUE, NoArgs)
         /\ trig' = [trig EXCEPT !["fg"] = NoFrame]
         /\ UNCHANGED <<clock, heap, schedules, config, disk, nextId, tick, fired, probe, shutdown, discovery, lmvars>>
    ELSE LET ok == remove_schedule_ok(config, heap, key)
         IN  /\ config' = remove_schedule_cfg(config, heap, key)
             /\ schedules' = delete_from_cache(ok, schedules, key)
             /\ ui' = Done("delete", key, ok, ~ok,
                           CacheValue(schedules', heap) = CacheValue(schedules, heap),
                           NoArgs)
             /\ trig' = [trig EXCEPT !["fg"] = NoFrame]
             /\ UNCHANGED <<clock, heap, disk, nextId, tick, fired, probe, shutdown, discovery, lmvars>>

enable_schedule(key, enabled) ==
    update_schedule("enable", key, [enabled |-> enabled])

\* faulty variant: run-now goes through the matching checks
on_run_now_Checked(schedule, now) == _should_trigger_schedule(schedule, now) = "true"

\* ScheduleWidget.on_run_now: whether the trigger routine is invoked
on_run_now(schedule, now) == TRUE

\* the ids the schedule list of the widget shows
Listed == DictKeys(schedules)

Create(argSet) == FgReady /\ \E a \in argSet : create_schedule(a)
Update(kwSet) == FgReady /\ \E key \in Listed, kw \in kwSet :
                     update_schedule("update", key, kw)
Delete == FgReady /\ \E key \in 1..nextId : delete_schedule(key)
Enable == FgReady /\ \E key \in Listed, e \in BOOLEAN : enable_schedule(key, e)

RunNow ==
    /\ FgReady
    /\ \E key \in Listed :
         LET ref == DictGet(schedules, key)
         IN  IF on_run_now(heap[ref], clock)
             THEN /\ heap' = [heap EXCEPT ![ref] =
                         DictUpdate(heap[ref], [last_run |-> clock])]
                  /\ trig' = [trig EXCEPT !["fg"] = TriggerFrame(key)]
                  /\ ui' = Done("run_now", key, TRUE, FALSE, FALSE, NoArgs)
             ELSE /\ heap' = heap
                  /\ trig' = [trig EXCEPT !["fg"] = NoFrame]
                  /\ ui' = Done("run_now", key, FALSE, FALSE, TRUE, NoArgs)
    /\ UNCHANGED <<clock, schedules, config, disk, nextId, tick, fired, probe, shutdown, discovery, lmvars>>

\* SettingsDialog.save_settings / MainWindow.closeEvent: config_manager.save_config()
SaveConfig ==
    /\ FgReady
    /\ disk # save_config(config, heap)
    /\ disk' = save_config(config, heap)
    /\ UNCHANGED <<clock, heap, schedules, config, nextId, tick, trig, ui, fired, probe, shutdown, discovery, lmvars>>

(***************************************************************************)
(* Spec: the scheduler thread against the foreground thread.               *)
(***************************************************************************)
TickCreateArgs == {a \in CreateArgs : a.name = "wake"}

Next ==
    \/ Advance
    \/ TickStart
    \/ TickNext
    \/ \E t \in Threads : TrigPersist(t)
    \/ \E t \in Threads : TrigAction(t)
    \/ \E t \in Threads : TrigEmit(t)
    \/ Create(TickCreateArgs)
    \/ Delete
    \/ RunNow

Spec == Init /\ [][Next]_vars

(***************************************************************************)
(* SpecCrud: the foreground thread alone, with every kind of argument.     *)
(***************************************************************************)
NextCrud ==
    \/ Create(CreateArgs)
    \/ Update(UpdateKwargs)
    \/ Delete
    \/ Enable
    \/ RunNow
    \/ TrigPersist("fg")
    \/ TrigAction("fg")
    \/ TrigEmit("fg")
    \/ SaveConfig

SpecCrud == Init /\ [][NextCrud]_vars

(***************************************************************************)
(* SpecDecide: _should_trigger_schedule on chosen schedules and times.     *)
(***************************************************************************)
EnabledOpts == {NoObj, [enabled |-> TRUE], [enabled |-> FALSE]}
TimeOpts == {NoObj, [time |-> <<0, 0>>], [time |-> <<0, 1>>], [time |-> <<1, 0>>]}
DaysOpts ==
    {NoObj} \cup
    {[days |-> v] : v \in {PyStr("all"), PyStr("weekdays"), PyStr("weekend"),
                           PyStr("monday"), PyList(<<0, 2, 4>>), PyList(<<5>>),
                           PyList(<<>>), PyNone}}
DateOpts == {NoObj, [date |-> 0], [date |-> 5]}
\* last_run, as seconds before now
LastRunAges == {0 - 5, 10, 59, 60, 61}
ProbeDays == {0, 5, 6, 7}
ProbeSeconds == {0, 59, 60, 119, 3600}

ProbeSchedule(e, tm, dy, dt, lr) ==
    DictUpdate(DictUpdate(DictUpdate(DictUpdate(
        DictUpdate([id |-> 1, name |-> "probe"], e), tm), dy), dt), lr)

InitDecide ==
    /\ clock = 0
    /\ heap = [r \in Refs |-> NoObj]
    /\ schedules = <<>>
    /\ config = <<>>
    /\ disk = <<>>
    /\ nextId = 0
    /\ tick = IdleTick
    /\ trig = [t \in Threads |-> NoFrame]
    /\ ui = IdleUi
    /\ fired = {}
    /\ shutdown = NoStop
    /\ discovery = NoDiscovery
    /\ InitLightManager
    /\ \E day \in ProbeDays, sec \in ProbeSeconds :
         LET now == day * SecondsPerDay + sec
         IN  \E e \in EnabledOpts, tm \in TimeOpts, dy \in DaysOpts, dt \in DateOpts,
                lr \in {NoObj} \cup {[last_run |-> now - age] : age \in LastRunAges} :
               probe = [schedule |-> ProbeSchedule(e, tm, dy, dt, lr),
                        now |-> now, out |-> "none"]

Evaluate ==
    /\ probe.out = "none"
    /\ probe' = [probe EXCEPT !.out = _should_trigger_schedule(probe.schedule, probe.now)]
    /\ UNCHANGED <<clock, heap, schedules, config, disk, nextId, tick, trig, ui, fired, shutdown, discovery, lmvars>>

NextDecide == Evaluate

SpecDecide == InitDecide /\ [][NextDecide]_vars

(***************************************************************************)
(* Properties                                                              *)
(***************************************************************************)
SecondOfDay(now) == now % SecondsPerDay

\* C1: the trigger decision is true exactly when the schedule is enabled (or
\* has no `enabled`), its time names now's minute, its days rule (if any)
\* admits now's weekday, its date (if any) is today, and last_run is absent
\* or at least 60 seconds before now; a disabled schedule never triggers.
C1_Expected(s, now) ==
    /\ Has(s, "enabled") => s["enabled"]
    /\ Has(s, "time")
    /\ SecondOfDay(now) - (s["time"][1] * 3600 + s["time"][2] * 60) \in 0..59
    /\ Has(s, "days") =>
         \/ s["days"].t = "list" /\ \E i \in 1..Len(s["days"].l) : s["days"].l[i] = Weekday(now)
         \/ s["days"] = PyStr("weekdays") /\ Weekday(now) \in {0, 1, 2, 3, 4}
         \/ s["days"] = PyStr("weekend") /\ Weekday(now) \in {5, 6}
         \/ s["days"] = PyStr("all")
    /\ Has(s, "date") => s["date"] = DateOf(now)
    /\ Has(s, "last_run") => s["last_run"] + 60 <= now

C1_TriggerDecision ==
    probe.out # "none" =>
        /\ probe.out = (IF C1_Expected(probe.schedule, probe.now) THEN "true" ELSE "false")
        /\ (Has(probe.schedule, "enabled") /\ ~probe.schedule["enabled"])
              => probe.out = "false"

\* a schedule with a weekday list and a last_run exactly 60 seconds old triggers
C1_Witness ==
    /\ probe.out = "true"
    /\ Has(probe.schedule, "days") /\ probe.schedule["days"].t = "list"
    /\ Has(probe.schedule, "last_run")
    /\ probe.schedule["last_run"] + 60 = probe.now

\* C2: once the tick has fired a schedule at time t, no tick evaluation made
\* at a time earlier than t + 60 seconds fires it again.
C2_NoDoubleFiring ==
    \A f1 \in fired, f2 \in fired :
        (f1 # f2 /\ f1.key = f2.key /\ f1.t <= f2.t) => f2.now >= f1.t + 60

\* the schedule fired once, and a later tick of the same minute, less than 60
\* seconds after the firing, has evaluated it again
C2_Witness ==
    \E f \in fired :
        /\ tick.pc = "iter" /\ f.key \in tick.seen
        /\ tick.now > f.now /\ tick.now < f.t + 60
        /\ Minute(tick.now) = Minute(f.now)
        /\ trig["bg"].pc = "none"

\* C3: when the persistence call of create/update/delete/enable fails, the
\* operation reports failure and the schedule cache is what it was before.
C3_FailureLeavesCache ==
    ui.pfail => (~ui.ok /\ ui.same)

\* delete_schedule of a cached schedule whose remove_schedule returned False
C3_Witness ==
    ui.pfail /\ ui.op = "delete" /\ ui.key \in DictKeys(schedules)

\* C4: foreground creates and deletes do not disturb a running tick: a tick
\* that has ended has evaluated every schedule that was in the cache when it
\* started (and was not deleted since), so it did not abort part-way.
C4_TickEvaluatesAll ==
    tick.pc = "sleep" =>
        \A k \in tick.startKeys \cap DictKeys(schedules) : k \in tick.seen

\* the log a complete firing of acts leaves: persist, the actions in list
\* order, emit
IsPrefix(p, q) == Len(p) <= Len(q) /\ \A i \in 1..Len(p) : p[i] = q[i]
LogKinds(log) == [i \in 1..Len(log) |-> <<log[i].e, log[i].i>>]
FullLog(acts) ==
    <<  <<"persist", 0>>  >> \o [i \in 1..Len(acts) |-> <<"action", i>>]
        \o <<  <<"emit", 0>>  >>
Finished(f) == f.pc = "none" /\ f.log # <<>>

\* C5: in every firing (tick or run-now) the schedule, carrying the last_run
\* the firing has set, is handed to the persistence layer before the first
\* action; the actions run in list order; the notification comes after the
\* last action.
C5_TriggerOrder ==
    \A t \in Threads :
        LET f == trig[t]
        IN  /\ f.pc = "persist" => f.log = <<>>
            /\ f.pc \in {"act", "emit"} \/ f.log # <<>> =>
                 /\ f.log[1].e = "persist" /\ f.log[1].v >= f.t0
                 /\ IsPrefix(LogKinds(f.log), FullLog(f.acts))
            /\ f.pc = "act" => Len(f.log) = f.ai
            /\ f.pc = "emit" => Len(f.log) = Len(f.acts) + 1
            /\ Finished(f) /\ ~f.escaped => LogKinds(f.log) = FullLog(f.acts)

\* a tick firing and a run-now firing, of two actions each, have both ended
C5_Witness ==
    \A t \in Threads :
        Finished(trig[t]) /\ Len(trig[t].acts) = 2 /\ Len(trig[t].log) = 4

\* C6: a failing action never aborts the firing: no exception leaves
\* _trigger_schedule, and a firing that has ended has attempted every action.
C6_FailureDoesNotAbort ==
    \A t \in Threads :
        LET f == trig[t]
        IN  /\ ~f.escaped
            /\ Finished(f) =>
                 {f.log[i].i : i \in {j \in 1..Len(f.log) : f.log[j].e = "action"}}
                     = 1..Len(f.acts)
            /\ \A i \in 1..Len(f.log) :
                 (f.log[i].e = "action" /\ f.log[i].r # "ok" /\ f.log[i].i < Len(f.acts)
                  /\ f.pc # "act")
                     => \E j \in 1..Len(f.log) :
                            f.log[j].e = "action" /\ f.log[j].i = f.log[i].i + 1

\* one firing whose first action was a light-manager failure (False returned
\* or an exception) and one whose first action had a malformed target_id; in
\* both the second action ran and the firing ended
C6_Witness ==
    /\ Finished(trig["bg"]) /\ Finished(trig["fg"])
    /\ \E t \in Threads, u \in Threads :
         /\ trig[t].log[2].r = "caught ValueError" /\ trig[t].log[3].e = "action"
         /\ trig[u].log[2].r \in {"false", "caught LmError"}
         /\ trig[u].log[3].r = "caught ValueError"

\* C7: run-now always invokes the trigger routine, and when the firing has
\* ended every action has run and last_run is the time of the firing (or of
\* a later one), whatever enabled, time, days, date and last_run were.
C7_RunNowBypasses ==
    ui.op = "run_now" =>
        /\ ui.ok
        /\ Finished(trig["fg"]) =>
             /\ LogKinds(trig["fg"].log) = FullLog(trig["fg"].acts)
             /\ Has(heap[trig["fg"].ref], "last_run")
             /\ heap[trig["fg"].ref]["last_run"] >= trig["fg"].t0

\* run-now has fired a disabled schedule outside the minute of its time
C7_Witness ==
    /\ ui.op = "run_now" /\ Finished(trig["fg"])
    /\ LET f == trig["fg"]
       IN  /\ ~heap[f.ref]["enabled"]
           /\ heap[f.ref]["time"] # <<Hour(f.t0), Minute(f.t0)>>
           /\ Len(f.acts) > 0
           /\ heap[f.ref]["last_run"] = f.t0

\* C8: after a successful create, update, delete, enable/disable or trigger
\* has returned, the configuration file holds the schedules as they are in
\* the configuration.
C8_SavedToDisk ==
    (ui.op # "none" /\ ui.ok /\ trig["fg"].pc = "none") =>
        disk = save_config(config, heap)

HasDaysRule(s) == Has(s, "days") /\ s["days"] # PyNone
HasDate(s) == Has(s, "date") /\ s["date"] # None

\* C9: no cached schedule has both a days rule and a date.
C9_DaysXorDate ==
    \A i \in LiveIdx(schedules) :
        ~(HasDaysRule(heap[schedules[i].ref]) /\ HasDate(heap[schedules[i].ref]))

\* C10: after create_schedule has returned an id, get_schedule(id) has that
\* id and the name, time, actions, enabled flag and days value passed.
C10_CreateRoundTrip ==
    (ui.op = "create" /\ ui.ok) =>
        LET s == heap[DictGet(schedules, ui.key)]
        IN  /\ DictGet(schedules, ui.key) # NoRef
            /\ s["id"] = ui.key
            /\ s["name"] = ui.args.name
            /\ s["time"] = ui.args.time
            /\ s["actions"] = ui.args.actions
            /\ s["enabled"] = ui.args.enabled
            /\ Get(s, "days", PyNone) = ui.args.days

(***************************************************************************)
(* LightManager: the calls of the threads.  A thread enters a method that  *)
(* begins with `with self.lock:` by acquiring the lock (it waits while     *)
(* another thread owns it), runs the method's steps and releases the lock  *)
(* when the method returns.                                                *)
(***************************************************************************)
Snap == [hb |-> hue_bridges, hl |-> hue_lights, ll |-> lifx_lights, dev |-> devices]

Begin(op, args) ==
    [IdleLm EXCEPT !.pc = "body", !.op = op, !.args = args, !.pre = Snap]

Finish(f, ok) == [f EXCEPT !.pc = "idle", !.done = TRUE, !.ok = ok]

\* another thread is inside a locked method that has changed the light maps
\* and has not returned: it is part-way through storing the lights of a
\* bridge or through the loops of a sweep
MidOperation(t) ==
    \E u \in LmThreads \ {t} :
        /\ lock.owner = u
        /\ lmt[u].op # "set_group_state"
        /\ <<hue_lights, lifx_lights>> # <<lmt[u].pre.hl, lmt[u].pre.ll>>

\* `with self.lock:` at the top of a method
Enter(t, calls) ==
    /\ lmt[t].pc = "idle"
    /\ CanAcquire(lock, t)
    /\ \E c \in calls : lmt' = [lmt EXCEPT ![t] = Begin(c.op, c.args)]
    /\ lock' = Acquire(lock, t)
    /\ UNCHANGED <<hue_bridges, hue_lights, lifx_lights, devices, groups, svars>>

\* add_hue_bridge, lines 56-71
AddHueBridgeBody(t) ==
    LET f == lmt[t]
    IN  /\ f.pc = "body"
        /\ f.op = "add_hue_bridge"
        /\ LET r == add_hue_bridge_upsert(hue_bridges, devices, f.args.bridge_info)
           IN  /\ hue_bridges' = r.hb
               /\ devices' = r.dev
               /\ IF r.ok
                  THEN /\ lmt' = [lmt EXCEPT ![t].pc = "fetch"]
                       /\ UNCHANGED lock
                  ELSE /\ lmt' = [lmt EXCEPT ![t] = Finish(f, FALSE)]
                       /\ lock' = Release(lock)
        /\ UNCHANGED <<hue_lights, lifx_lights, groups, svars>>

\* faulty variant: no except clause, the exception leaves add_hue_bridge
add_hue_bridge_except_Propagate(f) ==
    [Finish(f, FALSE) EXCEPT !.exc = "Exception", !.raised = TRUE]

\* the except clause of add_hue_bridge: the error is logged, False returned
add_hue_bridge_except(f) == [Finish(f, FALSE) EXCEPT !.exc = "Exception"]

\* add_hue_bridge, lines 74-77 and 99-104: the fetch of the bridge's lights.
\* HueProtocol.get_lights returns the lights, or {} on any error; an
\* exception raised inside the try block is the third outcome.
FetchLights(t, results) ==
    LET f == lmt[t]
        bridge_info == f.args.bridge_info
    IN  /\ f.pc = "fetch"
        /\ IF ~(Has(bridge_info, "ip") /\ Has(bridge_info, "username"))
           THEN /\ lmt' = [lmt EXCEPT ![t] = Finish(f, TRUE)]
                /\ lock' = Release(lock)
           ELSE \/ /\ lmt' = [lmt EXCEPT ![t] = add_hue_bridge_except(f)]
                   /\ lock' = Release(lock)
                \/ \E lights \in results :
                     LET call == ProtoCall("hue.get_lights", "hue", bridge_info["id"],
                                           NoObj, lights # <<>>)
                         f1 == [f EXCEPT !.calls = Append(@, call)]
                     IN  IF lights = <<>>
                         THEN /\ lmt' = [lmt EXCEPT ![t] = Finish(f1, TRUE)]
                              /\ lock' = Release(lock)
                         ELSE /\ lmt' = [lmt EXCEPT ![t] =
                                           [f1 EXCEPT !.pc = "store", !.todo = lights]]
                              /\ UNCHANGED lock
        /\ UNCHANGED <<hue_bridges, hue_lights, lifx_lights, devices, groups, svars>>

\* add_hue_bridge, lines 80-95: one turn of the loop over the lights
StoreLight(t) ==
    LET f == lmt[t]
        e == Head(f.todo)
    IN  /\ f.pc = "store"
        /\ hue_lights' = store_hue_light(hue_lights, f.args.bridge_info["id"],
                                         e.key, e.value)
        /\ IF Len(f.todo) = 1
           THEN /\ lmt' = [lmt EXCEPT ![t] = Finish([f EXCEPT !.todo = <<>>], TRUE)]
                /\ lock' = Release(lock)
           ELSE /\ lmt' = [lmt EXCEPT ![t].todo = Tail(@)]
                /\ UNCHANGED lock
        /\ UNCHANGED <<hue_bridges, lifx_lights, devices, groups, svars>>

AddLifxLightBody(t) ==
    LET f == lmt[t]
        r == add_lifx_light(lifx_lights, devices, f.args.light_info)
    IN  /\ f.pc = "body"
        /\ f.op = "add_lifx_light"
        /\ lifx_lights' = r.ll
        /\ devices' = r.dev
        /\ lmt' = [lmt EXCEPT ![t] = Finish([f EXCEPT !.calls = r.calls], r.ok)]
        /\ lock' = Release(lock)
        /\ UNCHANGED <<hue_bridges, hue_lights, groups, svars>>

SetLightStateBody(t) ==
    LET f == lmt[t]
    IN  /\ f.pc = "body"
        /\ f.op = "set_light_state"
        /\ \E sent \in BOOLEAN :
             LET r == set_light_state(hue_bridges, hue_lights, lifx_lights,
                                      f.args.protocol, f.args.light_id, f.args.state, sent)
             IN  /\ hue_lights' = r.hl
                 /\ lifx_lights' = r.ll
                 /\ lmt' = [lmt EXCEPT ![t] = Finish([f EXCEPT !.calls = r.calls], r.ok)]
        /\ lock' = Release(lock)
        /\ UNCHANGED <<hue_bridges, devices, groups, svars>>

RefreshLightBody(t, reports) ==
    LET f == lmt[t]
    IN  /\ f.pc = "body"
        /\ f.op = "refresh_light"
        /\ \E report \in reports :
             LET r == refresh_light(hue_bridges, hue_lights, lifx_lights,
                                    f.args.protocol, f.args.light_id, report)
             IN  /\ hue_lights' = r.hl
                 /\ lifx_lights' = r.ll
                 /\ lmt' = [lmt EXCEPT ![t] = Finish([f EXCEPT !.calls = r.calls], r.ok)]
        /\ lock' = Release(lock)
        /\ UNCHANGED <<hue_bridges, devices, groups, svars>>

\* the keys the two loops of a sweep go through: Hue lights, then LIFX lights
SweepItems ==
    [i \in 1..Len(hue_lights) |-> <<"hue", hue_lights[i].key>>]
    \o [i \in 1..Len(lifx_lights) |-> <<"lifx", lifx_lights[i].key>>]

\* refresh_all_devices and set_all_lights: `success = True` and the loops
SweepBody(t) ==
    LET f == lmt[t]
    IN  /\ f.pc = "body"
        /\ f.op \in {"refresh_all_devices", "set_all_lights"}
        /\ IF SweepItems = <<>>
           THEN /\ lmt' = [lmt EXCEPT ![t] = Finish(f, TRUE)]
                /\ lock' = Release(lock)
           ELSE /\ lmt' = [lmt EXCEPT ![t] =
                             [f EXCEPT !.pc = "inner_acquire", !.todo = SweepItems,
                                       !.ok = TRUE]]
                /\ UNCHANGED lock
        /\ UNCHANGED <<hue_bridges, hue_lights, lifx_lights, devices, groups, svars>>

\* set_group_state, lines 474-484: it takes no lock of its own
GroupStart(t, calls) ==
    /\ lmt[t].pc = "idle"
    /\ \E c \in calls :
         LET group == FindGroup(groups, c.group_id)
             f == [IdleLm EXCEPT !.op = "set_group_state", !.args = c, !.pre = Snap]
         IN  lmt' = [lmt EXCEPT ![t] =
                 IF group = NoObj \/ ~Has(group, "lights") THEN Finish(f, FALSE)
                 ELSE IF group["lights"] = <<>> THEN Finish(f, TRUE)
                 ELSE [f EXCEPT !.pc = "inner_acquire", !.todo = group["lights"],
                                !.ok = TRUE]]
    /\ UNCHANGED <<hue_bridges, hue_lights, lifx_lights, devices, groups, lock, svars>>

\* `with self.lock:` of the refresh_light or set_light_state a loop calls
InnerAcquire(t) ==
    /\ lmt[t].pc = "inner_acquire"
    /\ CanAcquire(lock, t)
    /\ lock' = Acquire(lock, t)
    /\ lmt' = [lmt EXCEPT ![t].pc = "inner_body"]
    /\ UNCHANGED <<hue_bridges, hue_lights, lifx_lights, devices, groups, svars>>

\* faulty variant: set_all_lights hands the whole patch of the action on
set_all_lights_state_WholePatch(args) ==
    IF Has(args, "action") THEN args.action.state ELSE [on |-> args.on]

\* set_all_lights, line 370: state = {'on': on}
set_all_lights_state(args) == [on |-> args.on]

\* faulty variant: the result is that of the last call
Aggregate_Last(success, ok) == ok

\* `if not ...: success = False`
Aggregate(success, ok) == success /\ ok

\* faulty variant: the loop stops at the first member that fails
LoopGoesOn_StopAtFailure(last, ok) == ~last /\ ok

\* the loops have no break: they go on whatever the call returned
LoopGoesOn(last, ok) == ~last

\* one turn of a loop: the call for the next light and `success = False`;
\* `acks` and `reports` are the answers the devices can give
InnerBody(t, acks, reports) ==
    LET f == lmt[t]
        item == Head(f.todo)
        state == IF f.op = "set_all_lights" THEN set_all_lights_state(f.args)
                 ELSE f.args.state
    IN  /\ f.pc = "inner_body"
        /\ \E sent \in acks, report \in reports :
             LET r == IF f.op = "refresh_all_devices"
                      THEN refresh_light(hue_bridges, hue_lights, lifx_lights,
                                         item[1], item[2], report)
                      ELSE set_light_state(hue_bridges, hue_lights, lifx_lights,
                                           item[1], item[2], state, sent)
                 f1 == [f EXCEPT !.todo = Tail(@),
                                 !.tried = Append(@, [protocol |-> item[1],
                                                      id |-> item[2], ok |-> r.ok]),
                                 !.calls = @ \o r.calls,
                                 !.ok = Aggregate(@, r.ok)]
                 goesOn == LoopGoesOn(Len(f.todo) = 1, r.ok)
             IN  /\ hue_lights' = r.hl
                 /\ lifx_lights' = r.ll
                 /\ lmt' = [lmt EXCEPT ![t] =
                              IF goesOn THEN [f1 EXCEPT !.pc = "inner_acquire"]
                              ELSE Finish(f1, f1.ok)]
                 /\ lock' = IF ~goesOn /\ f.op # "set_group_state"
                            THEN Release(Release(lock)) ELSE Release(lock)
        /\ UNCHANGED <<hue_bridges, devices, groups, svars>>

GetLightBody(t) ==
    LET f == lmt[t]
    IN  /\ f.pc = "body"
        /\ f.op = "get_light"
        /\ lmt' = [lmt EXCEPT ![t] =
                     Finish([f EXCEPT !.got = get_light(hue_lights, lifx_lights,
                                                        f.args.protocol, f.args.light_id),
                                      !.mid = MidOperation(t)], TRUE)]
        /\ lock' = Release(lock)
        /\ UNCHANGED <<hue_bridges, hue_lights, lifx_lights, devices, groups, svars>>

GetAllLightsBody(t) ==
    LET f == lmt[t]
    IN  /\ f.pc = "body"
        /\ f.op = "get_all_lights"
        /\ lmt' = [lmt EXCEPT ![t] =
                     Finish([f EXCEPT !.val = Len(get_all_lights(hue_lights, lifx_lights)),
                                      !.mid = MidOperation(t)], TRUE)]
        /\ lock' = Release(lock)
        /\ UNCHANGED <<hue_bridges, hue_lights, lifx_lights, devices, groups, svars>>

\* get_total_device_count: no lock
GetTotalDeviceCount(t) ==
    /\ lmt[t].pc = "idle"
    /\ lmt' = [lmt EXCEPT ![t] =
                 Finish([IdleLm EXCEPT !.op = "get_total_device_count", !.pre = Snap,
                                       !.val = get_total_device_count(hue_lights, lifx_lights),
                                       !.mid = MidOperation(t)], TRUE)]
    /\ UNCHANGED <<hue_bridges, hue_lights, lifx_lights, devices, groups, lock, svars>>

(***************************************************************************)
(* get_connected_device_count: no lock.  Each loop runs over the live      *)
(* dict; the iterator raises RuntimeError when the dict has changed size   *)
(* since the loop began and it is asked for a further element.  `todo`     *)
(* holds the size at the start of the running loop.                        *)
(***************************************************************************)
CountStart(t) ==
    /\ lmt[t].pc = "idle"
    /\ lmt' = [lmt EXCEPT ![t] =
                 [IdleLm EXCEPT !.pc = "count_hue", !.op = "get_connected_device_count",
                                !.pre = Snap, !.todo = <<Len(hue_lights)>>,
                                !.mid = MidOperation(t)]]
    /\ UNCHANGED <<hue_bridges, hue_lights, lifx_lights, devices, groups, lock, svars>>

IterRaises(m, f) == f.todo[1] > 0 /\ Len(m) # f.todo[1]

RuntimeError(f) == [Finish(f, FALSE) EXCEPT !.exc = "RuntimeError", !.raised = TRUE]

CountHue(t) ==
    LET f == lmt[t]
    IN  /\ f.pc = "count_hue"
        /\ lmt' = [lmt EXCEPT ![t] =
                     IF IterRaises(hue_lights, f) THEN RuntimeError(f)
                     ELSE [f EXCEPT !.pc = "count_lifx",
                                    !.val = CountReachable(hue_lights),
                                    !.todo = <<Len(lifx_lights)>>,
                                    !.mid = @ \/ MidOperation(t)]]
        /\ UNCHANGED <<hue_bridges, hue_lights, lifx_lights, devices, groups, lock, svars>>

CountLifx(t) ==
    LET f == lmt[t]
    IN  /\ f.pc = "count_lifx"
        /\ lmt' = [lmt EXCEPT ![t] =
                     IF IterRaises(lifx_lights, f) THEN RuntimeError(f)
                     ELSE Finish([f EXCEPT !.val = @ + CountReachable(lifx_lights),
                                           !.todo = <<>>], TRUE)]
        /\ UNCHANGED <<hue_bridges, hue_lights, lifx_lights, devices, groups, lock, svars>>

(***************************************************************************)
(* SchedulerService._execute_action on the light manager: an `all` action  *)
(* enters set_all_lights with state.get('on'), or makes no call at all.    *)
(***************************************************************************)
ExecuteAction(t, actions) ==
    /\ lmt[t].pc = "idle"
    /\ \E action \in actions :
         LET c == ActionCall(action)
         IN  IF c.op = "set_all_lights"
             THEN /\ CanAcquire(lock, t)
                  /\ lock' = Acquire(lock, t)
                  /\ lmt' = [lmt EXCEPT ![t] =
                               Begin("set_all_lights", [on |-> c.on, action |-> action])]
             ELSE /\ c.op = "none"
                  /\ lmt' = [lmt EXCEPT ![t] =
                               Finish([IdleLm EXCEPT !.op = "_execute_action",
                                                     !.args = [action |-> action],
                                                     !.pre = Snap], TRUE)]
                  /\ UNCHANGED lock
    /\ UNCHANGED <<hue_bridges, hue_lights, lifx_lights, devices, groups, svars>>

(***************************************************************************)
(* Inputs of the light manager                                             *)
(***************************************************************************)
B1 == <<"b1">>
L1 == <<"l1">>
L2 == <<"l2">>

BridgeInfos ==
    { [id |-> B1, ip |-> "10.0.0.2", username |-> "key", name |-> "saved"],
      [id |-> B1, ip |-> "10.0.0.2", name |-> "found"],   \* as discover_bridges builds it
      [ip |-> "10.0.0.9", name |-> "anonymous"] }

HueLightData(n, state) == [id |-> <<n>>, protocol |-> "hue", state |-> state]

\* what HueProtocol.get_lights returns: {} or the lights of the bridge
GetLightsResults ==
    { <<>>,
      << [key |-> <<"1">>, value |-> HueLightData("1", [on |-> TRUE, reachable |-> TRUE])],
         [key |-> <<"2">>, value |-> HueLightData("2", [on |-> FALSE, reachable |-> FALSE])] >> }

\* what HueProtocol.get_light_state returns: {} or the normalized state
HueReports ==
    { NoObj, [on |-> TRUE, reachable |-> FALSE], [on |-> FALSE, reachable |-> TRUE] }

LifxInfos ==
    { [id |-> L1, ip |-> "10.0.0.3", mac |-> "d0:73", protocol |-> "lifx",
       state |-> [on |-> FALSE, brightness |-> 50, reachable |-> TRUE]],
      [id |-> L2],                    \* no address: no state is fetched
      [ip |-> "10.0.0.4", mac |-> "d0:74"] }

Patches ==
    { [on |-> TRUE],
      [on |-> FALSE, brightness |-> 50],
      [hue |-> 120, saturation |-> 100],
      [rgb_color |-> <<255, 0, 0>>] }

LightRefs ==
    { <<"hue", B1 \o <<"1">>>>, <<"hue", B1 \o <<"9">>>>, <<"lifx", L1>>, <<"lifx", L2>>,
      <<"zigbee", L1>> }

\* the groups the configuration holds: members by (protocol, light id); a
\* member is dangling while no light with that id is tracked
LoadedGroups ==
    << [id |-> "g1", name |-> "living room",
        lights |-> << <<"hue", B1 \o <<"9">>>>, <<"lifx", L2>>, <<"lifx", L1>> >>] >>

AllActions ==
    { [type |-> "set_state", target_type |-> "all", target_id |-> <<>>,
       state |-> [on |-> TRUE, brightness |-> 50]],
      [type |-> "set_state", target_type |-> "all", target_id |-> <<>>,
       state |-> [brightness |-> 50]],
      ActAll }

AddCalls(bridges, lights) ==
    {[op |-> "add_hue_bridge", args |-> [bridge_info |-> b]] : b \in bridges}
    \cup {[op |-> "add_lifx_light", args |-> [light_info |-> l]] : l \in lights}

LightCalls ==
    AddCalls(BridgeInfos, LifxInfos)
    \cup {[op |-> "set_light_state",
           args |-> [protocol |-> r[1], light_id |-> r[2], state |-> p]] :
             r \in LightRefs, p \in Patches}
    \cup {[op |-> o, args |-> [protocol |-> r[1], light_id |-> r[2]]] :
             o \in {"refresh_light", "get_light"}, r \in LightRefs}
    \cup {[op |-> "get_all_lights", args |-> NoObj]}

SweepCalls ==
    AddCalls({b \in BridgeInfos : Has(b, "username")}, {l \in LifxInfos : Has(l, "id")})
    \cup {[op |-> "refresh_all_devices", args |-> NoObj]}
    \cup {[op |-> "set_all_lights", args |-> [on |-> b]] : b \in BOOLEAN}

GroupCalls == {[group_id |-> g, state |-> [on |-> TRUE]] : g \in {"g1", "g9"}}

InitSchedulerIdle ==
    /\ clock = 0
    /\ heap = [r \in Refs |-> NoObj]
    /\ schedules = <<>>
    /\ config = <<>>
    /\ disk = <<>>
    /\ nextId = 0
    /\ tick = IdleTick
    /\ trig = [t \in Threads |-> NoFrame]
    /\ ui = IdleUi
    /\ fired = {}
    /\ shutdown = NoStop
    /\ discovery = NoDiscovery
    /\ probe = NoProbe

InitLights ==
    /\ InitSchedulerIdle
    /\ hue_bridges = <<>>
    /\ hue_lights = <<>>
    /\ lifx_lights = <<>>
    /\ devices = NoDevices
    /\ groups = LoadedGroups
    /\ lock = NoLock
    /\ lmt = [t \in LmThreads |-> IdleLm]

(***************************************************************************)
(* SpecLock: the three threads of the application on one LightManager.     *)
(* The window thread loads the saved bridge, writes, refreshes and reads   *)
(* in any order; the discovery thread makes one scan and adds the bridge   *)
(* and then the light it finds; the scheduler thread runs the action of    *)
(* one due schedule.                                                       *)
(***************************************************************************)
SavedBridge == [id |-> B1, ip |-> "10.0.0.2", username |-> "key", name |-> "saved"]

FoundBridge == [id |-> B1, ip |-> "10.0.0.2", name |-> "found"]

\* the lights LifxProtocol.discover_lights reports, in order
FoundLights ==
    << [id |-> L1, ip |-> "10.0.0.3", mac |-> "d0:73", protocol |-> "lifx",
        state |-> [on |-> FALSE, brightness |-> 50, reachable |-> TRUE]],
       [id |-> L2, ip |-> "10.0.0.4", mac |-> "d0:74", protocol |-> "lifx",
        state |-> [on |-> TRUE, brightness |-> 80, reachable |-> TRUE]] >>

\* MainWindow and its widgets: load_saved_devices, a light control,
\* refresh_devices, the light lists
WindowCalls ==
    AddCalls({SavedBridge}, {})
    \cup {[op |-> "set_light_state",
           args |-> [protocol |-> "lifx", light_id |-> L1, state |-> [on |-> FALSE]]],
          [op |-> "refresh_all_devices", args |-> NoObj],
          [op |-> "get_light", args |-> [protocol |-> "hue", light_id |-> B1 \o <<"2">>]],
          [op |-> "get_all_lights", args |-> NoObj]}

\* DiscoveryService._discover_devices: the bridges found, then the LIFX lights
DiscoveryCalls ==
    LET f == lmt["disc"]
    IN  IF f.op = "none" THEN AddCalls({FoundBridge}, {})
        ELSE IF f.op = "add_hue_bridge" THEN AddCalls({}, {FoundLights[1]})
        ELSE IF f.args.light_info = FoundLights[1] THEN AddCalls({}, {FoundLights[2]})
        ELSE {}

\* the action of the schedule that is due
DueActions == IF lmt["bg"].op = "none" THEN {ActAll} ELSE {}

\* the devices answer every call; the lights report themselves unreachable
UnreachableReports == {[on |-> TRUE, reachable |-> FALSE]}

NextLock ==
    \/ Enter("fg", WindowCalls)
    \/ Enter("disc", DiscoveryCalls)
    \/ \E t \in {"fg", "disc"} : AddHueBridgeBody(t)
    \/ \E t \in {"fg", "disc"} : FetchLights(t, GetLightsResults)
    \/ StoreLight("fg")
    \/ AddLifxLightBody("disc")
    \/ SetLightStateBody("fg")
    \/ \E t \in {"fg", "bg"} : SweepBody(t)
    \/ \E t \in {"fg", "bg"} : InnerAcquire(t)
    \/ \E t \in {"fg", "bg"} : InnerBody(t, {TRUE}, UnreachableReports)
    \/ ExecuteAction("bg", DueActions)
    \/ GetLightBody("fg")
    \/ GetAllLightsBody("fg")
    \/ GetTotalDeviceCount("fg")
    \/ CountStart("fg")
    \/ CountHue("fg")
    \/ CountLifx("fg")

SpecLock == InitLights /\ [][NextLock]_vars

(***************************************************************************)
(* SpecLights: one thread adds devices, writes and refreshes single lights *)
(* and reads the registry, with every kind of argument.                    *)
(***************************************************************************)
NextLights ==
    \/ Enter("fg", LightCalls)
    \/ AddHueBridgeBody("fg")
    \/ FetchLights("fg", GetLightsResults)
    \/ StoreLight("fg")
    \/ AddLifxLightBody("fg")
    \/ SetLightStateBody("fg")
    \/ RefreshLightBody("fg", HueReports)
    \/ GetLightBody("fg")
    \/ GetAllLightsBody("fg")
    \/ GetTotalDeviceCount("fg")
    \/ CountStart("fg")
    \/ CountHue("fg")
    \/ CountLifx("fg")

SpecLights == InitLights /\ [][NextLights]_vars

(***************************************************************************)
(* SpecSweep: one thread adds devices and runs the operations that go      *)
(* through many lights: refresh_all_devices, set_all_lights (also as the   *)
(* `all` action of a schedule) and set_group_state.                        *)
(***************************************************************************)
NextSweep ==
    \/ Enter("fg", SweepCalls)
    \/ AddHueBridgeBody("fg")
    \/ FetchLights("fg", GetLightsResults)
    \/ StoreLight("fg")
    \/ AddLifxLightBody("fg")
    \/ SweepBody("fg")
    \/ GroupStart("fg", GroupCalls)
    \/ InnerAcquire("fg")
    \/ InnerBody("fg", BOOLEAN, HueReports)
    \/ ExecuteAction("fg", AllActions)

SpecSweep == InitLights /\ [][NextSweep]_vars

(***************************************************************************)
(* Properties of the light manager                                         *)
(***************************************************************************)
Sweeps == {"refresh_all_devices", "set_all_lights"}

\* two dicts agree on every key but `key`
SameBut(old, new, key) ==
    \A k \in ((DOMAIN old) \cup (DOMAIN new)) \ {key} :
        Has(old, k) /\ Has(new, k) /\ old[k] = new[k]

\* two maps hold the same lights, whose records agree on every key but `key`
MapSameBut(m0, m1, key) ==
    /\ MapKeys(m0) = MapKeys(m1)
    /\ \A i \in 1..Len(m0) : SameBut(m0[i].value, m1[i].value, key)

\* C11: for a schedule action with target type `all`, the firing calls
\* set_all_lights with the `on` value of the action's state; every write sent
\* to a light carries the `on` field alone, no record changes in any other
\* field, and a state without `on` leads to no call and no write at all.
C11_AllHonoursOnlyOn ==
    \A t \in LmThreads :
        LET f == lmt[t]
        IN  /\ (f.op = "set_all_lights" /\ Has(f.args, "action")) =>
                 LET on == f.args.action.state["on"]
                 IN  /\ f.args.on = on
                     /\ \A i \in 1..Len(f.calls) :
                          /\ f.calls[i].fn \in {"hue.set_light_state", "lifx.set_light_state"}
                          /\ f.calls[i].state = [on |-> on]
                     /\ MapSameBut(f.pre.hl, hue_lights, "on")
                     /\ MapSameBut(f.pre.ll, lifx_lights, "on")
                     /\ hue_bridges = f.pre.hb
            /\ (f.op = "_execute_action" /\ ~Has(f.args.action.state, "on")) =>
                 /\ f.done
                 /\ f.calls = <<>>
                 /\ f.tried = <<>>
                 /\ Snap = f.pre

\* an `all` action whose state also asks for a brightness has been executed
\* on a registry of several lights and some write was accepted
C11_Witness ==
    LET f == lmt["fg"]
    IN  /\ f.done
        /\ f.op = "set_all_lights"
        /\ Has(f.args, "action")
        /\ Has(f.args.action.state, "brightness")
        /\ Len(f.tried) >= 3
        /\ \E i \in 1..Len(f.calls) : f.calls[i].ret /\ f.calls[i].protocol = "lifx"
        /\ \E i \in 1..Len(f.calls) : f.calls[i].ret /\ f.calls[i].protocol = "hue"

\* the (protocol, id) of a call does not resolve in the registry `pre`: the
\* protocol is not supported, no light with that id is tracked, or the
\* bridge of a Hue light is unknown or has no ip or no username
C12_Unresolved(pre, protocol, light_id) ==
    \/ protocol \notin {"hue", "lifx"}
    \/ protocol = "hue" /\ ~MapHas(pre.hl, light_id)
    \/ protocol = "lifx" /\ ~MapHas(pre.ll, light_id)
    \/ /\ protocol = "hue"
       /\ MapHas(pre.hl, light_id)
       /\ LET light == MapGet(pre.hl, light_id)
          IN  \/ ~Has(light, "bridge_id")
              \/ ~MapHas(pre.hb, light["bridge_id"])
              \/ ~Has(MapGet(pre.hb, light["bridge_id"]), "ip")
              \/ ~Has(MapGet(pre.hb, light["bridge_id"]), "username")

\* bridge maps in which the bridge of a tracked Hue light is absent or has
\* lost its ip or its username.  No run reaches them (nothing removes a
\* bridge or a key of it); set_light_state is applied to them directly.
OrphanBridgeMaps ==
    { <<>>,
      << [key |-> B1, value |-> [id |-> B1, ip |-> "10.0.0.2"]] >>,
      << [key |-> B1, value |-> [id |-> B1, username |-> "key"]] >> }

OrphanLights ==
    store_hue_light(<<>>, B1, <<"1">>, HueLightData("1", [on |-> TRUE, reachable |-> TRUE]))

\* C12: whenever the (protocol, id) given to set_light_state does not
\* resolve, the call returns False, sends no protocol write, raises nothing
\* and leaves the bridge map and both light maps as they were.
C12_UnresolvedWriteFails ==
    /\ \A t \in LmThreads :
          LET f == lmt[t]
          IN  (/\ f.op = "set_light_state"
               /\ f.done
               /\ C12_Unresolved(f.pre, f.args.protocol, f.args.light_id)) =>
                  /\ ~f.ok
                  /\ f.calls = <<>>
                  /\ ~f.raised
                  /\ hue_bridges = f.pre.hb
                  /\ hue_lights = f.pre.hl
                  /\ lifx_lights = f.pre.ll
    /\ \A hb \in OrphanBridgeMaps, p \in Patches, sent \in BOOLEAN :
          LET r == set_light_state(hb, OrphanLights, lifx_lights, "hue",
                                   B1 \o <<"1">>, p, sent)
          IN  /\ C12_Unresolved([hb |-> hb, hl |-> OrphanLights, ll |-> lifx_lights],
                                "hue", B1 \o <<"1">>)
              /\ ~r.ok
              /\ r.calls = <<>>
              /\ r.hl = OrphanLights
              /\ r.ll = lifx_lights

\* a write for an unsupported protocol has returned while the registry holds
\* a LIFX light under that very id, a bridge and its lights
C12_Witness ==
    LET f == lmt["fg"]
    IN  /\ f.op = "set_light_state"
        /\ f.done
        /\ f.args.protocol = "zigbee"
        /\ MapHas(lifx_lights, f.args.light_id)
        /\ Has(MapGet(lifx_lights, f.args.light_id), "ip")
        /\ Len(hue_lights) = 2
        /\ ~f.ok

Canonical == {"on", "brightness", "color_temp", "hue", "saturation", "rgb_color"}

\* the record holds value v for field k, at its top level (where the merges
\* of set_light_state go) or in its 'state' dict (which the widgets read)
HoldsField(rec, k, v) ==
    \/ Has(rec, k) /\ rec[k] = v
    \/ Has(Get(rec, "state", NoObj), k) /\ rec["state"][k] = v

\* field k is in both records with one value, or in neither
KeepsField(old, new, k) ==
    /\ Has(old, k) <=> Has(new, k)
    /\ Has(old, k) => old[k] = new[k]

\* C13: after set_light_state has returned True the stored record holds the
\* value of every canonical field of the patch and the canonical fields the
\* patch does not name are as before, for Hue and for LIFX lights; after it
\* has returned False the stored record is as before.
C13_WriteIsStored ==
    \A t \in LmThreads :
        LET f == lmt[t]
        IN  (f.op = "set_light_state" /\ f.done) =>
              LET old == get_light(f.pre.hl, f.pre.ll, f.args.protocol, f.args.light_id)
                  new == get_light(hue_lights, lifx_lights, f.args.protocol,
                                   f.args.light_id)
                  patch == f.args.state
              IN  IF f.ok
                  THEN /\ \A k \in (DOMAIN patch) \cap Canonical :
                            HoldsField(new, k, patch[k])
                       /\ \A k \in Canonical \ DOMAIN patch :
                            /\ KeepsField(old, new, k)
                            /\ KeepsField(Get(old, "state", NoObj),
                                          Get(new, "state", NoObj), k)
                  ELSE new = old

\* the lights two maps track, Hue first, each as (protocol, id)
TrackedItems(hl, ll) ==
    [i \in 1..Len(hl) |-> <<"hue", hl[i].key>>]
    \o [i \in 1..Len(ll) |-> <<"lifx", ll[i].key>>]

TriedItems(f) == [i \in 1..Len(f.tried) |-> <<f.tried[i].protocol, f.tried[i].id>>]

AllTriedOk(f) == \A i \in 1..Len(f.tried) : f.tried[i].ok

\* C14: refresh_all_devices and set_all_lights call refresh_light /
\* set_light_state once for every light tracked when the sweep began, Hue
\* lights then LIFX lights, whatever the earlier calls returned, and return
\* True exactly when every one of these calls returned True.
C14_BestEffortSweep ==
    \A t \in LmThreads :
        LET f == lmt[t]
        IN  (f.op \in Sweeps /\ f.pc # "body") =>
              /\ TriedItems(f) \o f.todo = TrackedItems(f.pre.hl, f.pre.ll)
              /\ f.done => /\ f.todo = <<>>
                           /\ ~f.raised
                           /\ f.ok <=> AllTriedOk(f)

\* a sweep over three lights has returned False: one call failed and a call
\* made after it succeeded
C14_Witness ==
    LET f == lmt["fg"]
    IN  /\ f.op \in Sweeps
        /\ f.done
        /\ ~f.ok
        /\ Len(f.tried) = 3
        /\ Cardinality({i \in 1..3 : ~f.tried[i].ok}) = 1
        /\ \E i, j \in 1..3 : i < j /\ ~f.tried[i].ok /\ f.tried[j].ok

\* the members of the group a set_group_state call names
GroupLights(f) == FindGroup(groups, f.args.group_id)["lights"]

\* C15: set_group_state on an existing group calls set_light_state for every
\* member in list order and never raises; a dangling or failing member stops
\* nothing: the members after it are still written, a member whose write
\* succeeded holds the patch and keeps it, a member whose write failed has the
\* record it had, and the result is True exactly when every write succeeded.
C15_GroupWritesEveryMember ==
    \A t \in LmThreads :
        LET f == lmt[t]
        IN  (f.op = "set_group_state" /\ FindGroup(groups, f.args.group_id) # NoObj) =>
              /\ ~f.raised
              /\ TriedItems(f) \o f.todo = GroupLights(f)
              /\ \A i \in 1..Len(f.tried) :
                   LET m == f.tried[i]
                       new == get_light(hue_lights, lifx_lights, m.protocol, m.id)
                       old == get_light(f.pre.hl, f.pre.ll, m.protocol, m.id)
                   IN  IF m.ok
                       THEN /\ new # NoObj
                            /\ \A k \in DOMAIN f.args.state :
                                 HoldsField(new, k, f.args.state[k])
                            /\ \E j \in 1..Len(f.calls) :
                                 /\ f.calls[j].fn \in {"hue.set_light_state",
                                                       "lifx.set_light_state"}
                                 /\ f.calls[j].id = m.id
                                 /\ f.calls[j].ret
                       ELSE new = old
              /\ f.done => /\ f.todo = <<>>
                           /\ f.ok <=> AllTriedOk(f)

\* a group write has returned False: the first member is dangling, the second
\* is tracked but its write failed, and the third, a valid light that was off,
\* has been switched on
C15_Witness ==
    LET f == lmt["fg"]
    IN  /\ f.op = "set_group_state"
        /\ f.done
        /\ ~f.ok
        /\ Len(f.tried) = 3
        /\ ~f.tried[1].ok /\ get_light(hue_lights, lifx_lights, "hue", f.tried[1].id) = NoObj
        /\ ~f.tried[2].ok /\ MapHas(lifx_lights, f.tried[2].id)
        /\ f.tried[3].ok
        /\ ~HoldsField(MapGet(f.pre.ll, f.tried[3].id), "on", TRUE)
        /\ MapGet(lifx_lights, f.tried[3].id)["on"] = TRUE

Mutators ==
    {"add_hue_bridge", "add_lifx_light", "set_light_state", "refresh_light",
     "refresh_all_devices", "set_all_lights"}

\* the thread is inside `with self.lock:` of a mutating method
InLock(f) ==
    /\ f.op \in Mutators
    /\ \/ f.pc \in {"body", "fetch", "store", "inner_body"}
       \/ f.pc = "inner_acquire"

\* the lock is taken once, and a second time inside the call a sweep makes
LockDepth(f) == IF f.pc = "inner_body" THEN 2 ELSE 1

\* the parts of the registry a mutating method never writes are as they were
\* when it took the lock
C16_Untouched(f) ==
    IF f.op = "add_hue_bridge"
    THEN /\ lifx_lights = f.pre.ll
         /\ devices.lifx_lights = f.pre.dev.lifx_lights
    ELSE IF f.op = "add_lifx_light"
    THEN /\ hue_bridges = f.pre.hb
         /\ hue_lights = f.pre.hl
         /\ devices.hue_bridges = f.pre.dev.hue_bridges
    ELSE /\ hue_bridges = f.pre.hb
         /\ devices = f.pre.dev
         /\ MapKeys(hue_lights) = MapKeys(f.pre.hl)
         /\ MapKeys(lifx_lights) = MapKeys(f.pre.ll)

C16_Exclusive ==
    /\ \A t \in LmThreads :
         InLock(lmt[t]) =>
           /\ lock = [owner |-> t, count |-> LockDepth(lmt[t])]
           /\ C16_Untouched(lmt[t])
           \* the nested `with self.lock:` of a sweep never waits
           /\ lmt[t].pc = "inner_acquire" => CanAcquire(lock, t)
    \* the lock is owned by a thread that is inside a locked method
    /\ lock.count > 0 => lmt[lock.owner].pc \notin {"idle", "count_hue", "count_lifx"}

\* a step that changes a map of the registry is a step of the lock's owner
C16_OwnerWrites ==
    <<hue_bridges, hue_lights, lifx_lights, devices>>'
        # <<hue_bridges, hue_lights, lifx_lights, devices>>
    => /\ lock.count > 0
       /\ InLock(lmt[lock.owner])
       /\ \A u \in LmThreads \ {lock.owner} : lmt'[u] = lmt[u]

\* C16: add_hue_bridge, add_lifx_light, set_light_state, refresh_light,
\* refresh_all_devices and set_all_lights of different threads never
\* interleave: a thread inside one of them owns the lock, no other thread
\* changes a map until it returns, and the calls a sweep makes on its own
\* thread take the lock again without waiting.
C16_Serialized == []C16_Exclusive /\ [][C16_OwnerWrites]_vars

\* the window thread is inside the second refresh_light of a sweep, holding
\* the lock twice, while the discovery thread has a light to add and waits
C16_Witness ==
    /\ lmt["fg"].op = "refresh_all_devices"
    /\ lmt["fg"].pc = "inner_body"
    /\ Len(lmt["fg"].tried) = 1
    /\ lock = [owner |-> "fg", count |-> 2]
    /\ lmt["disc"].pc = "idle"
    /\ DiscoveryCalls # {}
    /\ ENABLED InnerBody("fg", {TRUE}, UnreachableReports)
    /\ ~ENABLED Enter("disc", DiscoveryCalls)

Reads == {"get_light", "get_all_lights", "get_connected_device_count",
          "get_total_device_count"}

\* C17: a read of the registry that runs while another thread is inside a
\* mutating method returns normally and has seen the light maps as they were
\* before that method or as they are after it, never in between.
C17_ReadsSeeSnapshot ==
    \A t \in LmThreads :
        LET f == lmt[t]
        IN  (f.op \in Reads /\ f.done) => ~f.raised /\ ~f.mid

\* the reachable flag of the state merged last into a record: add stores the
\* state it is given under 'state' (a bridge's light replaces its record),
\* every later merge of refresh_light, set_light_state and add_lifx_light
\* goes to the top level of the record
LastKnownReachable(light) ==
    IF Has(light, "reachable") THEN light["reachable"] ELSE Reachable(light)

LastKnownCount(m) == Cardinality({i \in 1..Len(m) : LastKnownReachable(m[i].value)})

\* C18: get_connected_device_count returns the number of tracked lights whose
\* most recently merged state has reachable = true.
C18_CountsLastKnownState ==
    \A t \in LmThreads :
        LET f == lmt[t]
        IN  (f.op = "get_connected_device_count" /\ f.done /\ ~f.raised) =>
              f.val = LastKnownCount(hue_lights) + LastKnownCount(lifx_lights)

\* the record an add call was given
AddedInfo(f) ==
    IF f.op = "add_hue_bridge" THEN f.args.bridge_info ELSE f.args.light_info

\* C19: add_hue_bridge and add_lifx_light with a record that has no 'id'
\* return False, make no protocol call and leave the bridge map, both light
\* maps and the persisted device lists as they were.
C19_AddWithoutIdRejected ==
    \A t \in LmThreads :
        LET f == lmt[t]
        IN  (f.op \in {"add_hue_bridge", "add_lifx_light"} /\ ~Has(AddedInfo(f), "id")) =>
              /\ Snap = f.pre
              /\ f.pc \in {"body", "idle"}
              /\ f.done => /\ ~f.ok
                           /\ ~f.raised
                           /\ f.calls = <<>>

\* a record with an address and no id has been rejected by a registry that
\* tracks a bridge, its lights and a LIFX light
C19_Witness ==
    LET f == lmt["fg"]
    IN  /\ f.done
        /\ f.op \in {"add_hue_bridge", "add_lifx_light"}
        /\ ~Has(AddedInfo(f), "id")
        /\ Has(AddedInfo(f), "ip")
        /\ ~f.ok
        /\ hue_bridges # <<>>
        /\ hue_lights # <<>>
        /\ lifx_lights # <<>>

\* every field of `info` is in `rec` with the same value
HasFields(rec, info) == \A k \in DOMAIN info : Has(rec, k) /\ rec[k] = info[k]

\* C20: once add_hue_bridge has passed its id check the bridge is in the
\* bridge map with every supplied field, the fields it had and the call does
\* not supply are kept, and its id is in the persisted list; this stays so
\* while and after the lights are fetched, whether the fetch returns lights,
\* returns nothing or raises, and the exception never leaves add_hue_bridge.
C20_BridgeUpsertSurvivesFetch ==
    \A t \in LmThreads :
        LET f == lmt[t]
            info == f.args.bridge_info
        IN  (/\ f.op = "add_hue_bridge"
             /\ Has(info, "id")
             /\ f.pc \in {"fetch", "store"} \/ f.done) =>
              LET id == info["id"]
                  old == IF MapHas(f.pre.hb, id) THEN MapGet(f.pre.hb, id) ELSE NoObj
              IN  /\ MapHas(hue_bridges, id)
                  /\ HasFields(MapGet(hue_bridges, id), info)
                  /\ \A k \in DOMAIN old \ DOMAIN info :
                       KeepsField(old, MapGet(hue_bridges, id), k)
                  /\ \E i \in 1..Len(devices.hue_bridges) : devices.hue_bridges[i] = id
                  /\ ~f.raised
                  /\ f.done /\ f.exc # "" => ~f.ok

\* the fetch raised while a bridge that was known as discovered was being
\* updated with its credentials: add_hue_bridge returned False, the bridge
\* has the credentials and keeps its lights
C20_Witness ==
    LET f == lmt["fg"]
    IN  /\ f.op = "add_hue_bridge"
        /\ f.done
        /\ f.exc = "Exception"
        /\ ~f.ok
        /\ MapHas(f.pre.hb, B1)
        /\ ~Has(MapGet(f.pre.hb, B1), "username")
        /\ Has(MapGet(hue_bridges, B1), "username")

\* C21: add_lifx_light with a record that has an id and neither mac nor ip
\* returns True, stores the record under that id with every field it was
\* given, and asks the protocol client for no state.
C21_AddressLessLightStored ==
    \A t \in LmThreads :
        LET f == lmt[t]
        IN  (/\ f.op = "add_lifx_light"
             /\ f.done
             /\ Has(f.args.light_info, "id")
             /\ ~Has(f.args.light_info, "mac")
             /\ ~Has(f.args.light_info, "ip")) =>
              LET id == f.args.light_info["id"]
              IN  /\ f.ok
                  /\ ~f.raised
                  /\ f.calls = <<>>
                  /\ MapHas(lifx_lights, id)
                  /\ HasFields(MapGet(lifx_lights, id), f.args.light_info)
                  /\ \E i \in 1..Len(devices.lifx_lights) : devices.lifx_lights[i] = id

\* a light without address has been added to a registry that did not track
\* it, next to a light with an address whose state was fetched
C21_Witness ==
    LET f == lmt["fg"]
    IN  /\ f.op = "add_lifx_light"
        /\ f.done
        /\ f.ok
        /\ f.args.light_info = [id |-> L2]
        /\ ~MapHas(f.pre.ll, L2)
        /\ MapHas(f.pre.ll, L1)
        /\ MapHas(lifx_lights, L2)

(***************************************************************************)
(* SpecKelvin: a colour temperature of the supported range is converted    *)
(* for the bridge by _convert_to_hue_state and read back from the bridge   *)
(* by normalize_state.                                                     *)
(***************************************************************************)
MIN_COLOR_TEMP == 2000
MAX_COLOR_TEMP == 6500

InitKelvin ==
    /\ clock = 0
    /\ heap = [r \in Refs |-> NoObj]
    /\ schedules = <<>>
    /\ config = <<>>
    /\ disk = <<>>
    /\ nextId = 0
    /\ tick = IdleTick
    /\ trig = [t \in Threads |-> NoFrame]
    /\ ui = IdleUi
    /\ fired = {}
    /\ shutdown = NoStop
    /\ discovery = NoDiscovery
    /\ InitLightManager
    /\ \E k \in MIN_COLOR_TEMP..MAX_COLOR_TEMP :
         probe = [pc |-> "convert", state |-> [color_temp |-> k],
                  sent |-> NoObj, out |-> NoObj]

ConvertToHue ==
    /\ probe.pc = "convert"
    /\ probe' = [probe EXCEPT !.pc = "normalize",
                              !.sent = _convert_to_hue_state(probe.state)]
    /\ UNCHANGED <<clock, heap, schedules, config, disk, nextId, tick, trig, ui, fired,
                   shutdown, discovery, lmvars>>

NormalizeFromHue ==
    /\ probe.pc = "normalize"
    /\ probe' = [probe EXCEPT !.pc = "done", !.out = hue_normalize_state(probe.sent)]
    /\ UNCHANGED <<clock, heap, schedules, config, disk, nextId, tick, trig, ui, fired,
                   shutdown, discovery, lmvars>>

NextKelvin == ConvertToHue \/ NormalizeFromHue

SpecKelvin == InitKelvin /\ [][NextKelvin]_vars

Abs(x) == IF x < 0 THEN 0 - x ELSE x

\* C22: a Kelvin value of 2000..6500 converted to mirek and back is within 1
\* of the value.
C22_KelvinRoundTrip ==
    probe.pc = "done" =>
        /\ Has(probe.out, "color_temp")
        /\ Abs(probe.out["color_temp"] - probe.state["color_temp"]) <= 1

(***************************************************************************)
(* SpecColour: LifxProtocol.normalize_state on a colour patch, and the     *)
(* merge of its result into the record of a light, as set_light_state      *)
(* does.  The colours are those on which the integer arithmetic of         *)
(* rgb_to_hsv and hsv_to_rgb above is exact.                               *)
(***************************************************************************)
Channels == {0, 128, 255}
HueSteps == {30 * i : i \in 0..11}
SaturationSteps == {0, 25, 50, 100}

ColourPatches ==
    LET colour == {[rgb_color |-> <<r, g, b>>] : r \in Channels, g \in Channels,
                                                 b \in Channels}
                  \cup {[hue |-> h, saturation |-> s] : h \in HueSteps,
                                                        s \in SaturationSteps}
                  \cup {[hue |-> h] : h \in {0, 120}}
    IN  colour \cup {DictUpdate(c, [brightness |-> 50]) : c \in colour}

\* the record add_lifx_light leaves for a light with an address
StoredLifxLight ==
    DictUpdate([id |-> L1, ip |-> "10.0.0.3", protocol |-> "lifx"], SimulatedState)

InitColour ==
    /\ clock = 0
    /\ heap = [r \in Refs |-> NoObj]
    /\ schedules = <<>>
    /\ config = <<>>
    /\ disk = <<>>
    /\ nextId = 0
    /\ tick = IdleTick
    /\ trig = [t \in Threads |-> NoFrame]
    /\ ui = IdleUi
    /\ fired = {}
    /\ shutdown = NoStop
    /\ discovery = NoDiscovery
    /\ InitLightManager
    /\ \E patch \in ColourPatches :
         probe = [pc |-> "normalize", state |-> patch, out |-> NoObj,
                  record |-> StoredLifxLight]

NormalizeLifx ==
    /\ probe.pc = "normalize"
    /\ probe' = [probe EXCEPT !.pc = "merge", !.out = lifx_normalize_state(probe.state)]
    /\ UNCHANGED <<clock, heap, schedules, config, disk, nextId, tick, trig, ui, fired,
                   shutdown, discovery, lmvars>>

\* set_light_state, lines 243-250: the normalized patch is merged into the record
MergeNormalized ==
    /\ probe.pc = "merge"
    /\ probe' = [probe EXCEPT !.pc = "merged", !.record = DictUpdate(@, probe.out)]
    /\ UNCHANGED <<clock, heap, schedules, config, disk, nextId, tick, trig, ui, fired,
                   shutdown, discovery, lmvars>>

NextColour == NormalizeLifx \/ MergeNormalized

SpecColour == InitColour /\ [][NextColour]_vars

\* the patch gives one colour representation and not the other
OneRepresentation(state) ==
    \/ Has(state, "rgb_color") /\ ~Has(state, "hue") /\ ~Has(state, "saturation")
    \/ Has(state, "hue") /\ Has(state, "saturation") /\ ~Has(state, "rgb_color")

\* C23: when a patch gives rgb_color without hue and saturation, or hue and
\* saturation without rgb_color, the result of LIFX normalize_state has hue,
\* saturation and rgb_color, and the record it is merged into holds the
\* colour of the patch in both representations.
C23_BothRepresentations ==
    (probe.pc = "merged" /\ OneRepresentation(probe.state)) =>
        /\ \A k \in {"hue", "saturation", "rgb_color"} :
             /\ Has(probe.out, k)
             /\ probe.record[k] = probe.out[k]
        /\ \A k \in {"hue", "saturation", "rgb_color"} \cap DOMAIN probe.state :
             probe.record[k] = probe.state[k]

(***************************************************************************)
(* SpecHueIds: two bridges with credentials, one of whose ids contains an  *)
(* underscore, their lights, and writes and refreshes of the stored ids.   *)
(***************************************************************************)
B2 == <<"b", "2">>              \* the bridge id "b_2"

IdBridges ==
    { [id |-> B1, ip |-> "10.0.0.2", username |-> "key1"],
      [id |-> B2, ip |-> "10.0.0.5", username |-> "key2"] }

\* the lights a bridge reports, by the id the bridge gives them
IdLightsResults ==
    { << [key |-> <<"7">>, value |-> HueLightData("7", [on |-> FALSE, reachable |-> TRUE])] >> }

IdRefs == {b \o <<"7">> : b \in {B1, B2}}

IdCalls ==
    AddCalls(IdBridges, {})
    \cup {[op |-> "set_light_state",
           args |-> [protocol |-> "hue", light_id |-> r, state |-> p]] :
             r \in IdRefs, p \in {[on |-> TRUE]}}
    \cup {[op |-> "refresh_light", args |-> [protocol |-> "hue", light_id |-> r]] :
             r \in IdRefs}

NextHueIds ==
    \/ Enter("fg", IdCalls)
    \/ AddHueBridgeBody("fg")
    \/ FetchLights("fg", IdLightsResults)
    \/ StoreLight("fg")
    \/ SetLightStateBody("fg")
    \/ RefreshLightBody("fg", UnreachableReports)

SpecHueIds == InitLights /\ [][NextHueIds]_vars

\* the id the bridge gave a stored light: what follows the bridge id and '_'
BridgeScopedId(light) == SubSeq(light["id"], Len(light["bridge_id"]) + 1, Len(light["id"]))

\* C24: a Hue light is stored under bridge id + '_' + light id, and a
\* set_light_state or refresh_light on that id calls the client with the ip
\* and username of the bridge that reported the light and with the light id
\* that bridge gave it, also when an id contains an underscore.
C24_CallReachesOwningLight ==
    /\ \A i \in 1..Len(hue_lights) :
         LET light == hue_lights[i].value
         IN  /\ light["id"] = hue_lights[i].key
             /\ hue_lights[i].key = light["bridge_id"] \o BridgeScopedId(light)
             /\ MapHas(hue_bridges, light["bridge_id"])
    /\ \A t \in LmThreads :
         LET f == lmt[t]
         IN  (f.op \in {"set_light_state", "refresh_light"} /\ f.done /\ f.calls # <<>>) =>
               LET light == MapGet(hue_lights, f.args.light_id)
                   bridge == MapGet(hue_bridges, light["bridge_id"])
               IN  /\ Len(f.calls) = 1
                   /\ f.calls[1].bridge_ip = bridge["ip"]
                   /\ f.calls[1].username = bridge["username"]
                   /\ f.calls[1].id = BridgeScopedId(light)


(***************************************************************************)
(* SpecStop: SchedulerService.stop() against the scheduler thread.         *)
(***************************************************************************)
JoinTimeoutSeconds == 1

\* two saved schedules, both due in the first minute of the run
StopConfigs ==
    { << [id |-> 1, name |-> "saved", time |-> <<0, 0>>,
          actions |-> <<ActLight, ActAll>>, enabled |-> TRUE,
          days |-> PyStr("all")],
         [id |-> 2, name |-> "second", time |-> <<0, 0>>,
          actions |-> <<ActGroup>>, enabled |-> TRUE] >> }

\* SchedulerService.__init__ on a configuration file that holds one of configs
InitFrom(configs) ==
    /\ \E day \in StartDays : clock = day * SecondsPerDay
    /\ \E loaded \in configs :
         /\ heap = [r \in Refs |-> IF r <= Len(loaded) THEN loaded[r] ELSE NoObj]
         /\ config = [i \in 1..Len(loaded) |-> i]
         /\ disk = loaded
         /\ nextId = Len(loaded)
    /\ schedules = _load_schedules(config, heap, 1)
    /\ tick = IdleTick
    /\ trig = [t \in Threads |-> NoFrame]
    /\ ui = IdleUi
    /\ fired = {}
    /\ probe = NoProbe
    /\ shutdown = NoStop
    /\ discovery = NoDiscovery
    /\ InitLightManager

InitStop == InitFrom(StopConfigs)

\* scheduler_thread.is_alive()
is_alive == tick.pc # "exited"

\* `while not self.stop_event.is_set()` passes: _process_schedules begins
LoopTick ==
    /\ ~shutdown.stop_event
    /\ TickStart

\* the sleep loop breaks on the stop event and the while test ends the thread
LoopExit ==
    /\ tick.pc = "sleep"
    /\ shutdown.stop_event
    /\ tick' = [tick EXCEPT !.pc = "exited"]
    /\ UNCHANGED <<clock, heap, schedules, config, disk, nextId, trig, ui, fired, probe,
                   shutdown, discovery, lmvars>>

\* stop(), up to the join: self.stop_event.set()
StopCall ==
    /\ shutdown.pc = "idle"
    /\ is_alive
    /\ shutdown' = [stop_event |-> TRUE, pc |-> "join", t0 |-> clock]
    /\ UNCHANGED <<clock, heap, schedules, config, disk, nextId, tick, trig, ui, fired,
                   probe, discovery, lmvars>>

\* self.scheduler_thread.join(timeout=1.0) is over
JoinOver(alive, waited) == ~alive \/ waited >= JoinTimeoutSeconds

\* the join returns; self.check_timer.stop() and stop() returns
JoinReturn ==
    /\ shutdown.pc = "join"
    /\ JoinOver(is_alive, clock - shutdown.t0)
    /\ shutdown' = [shutdown EXCEPT !.pc = "returned"]
    /\ UNCHANGED <<clock, heap, schedules, config, disk, nextId, tick, trig, ui, fired,
                   probe, discovery, lmvars>>

\* a step of the scheduler thread
BgStep ==
    \/ LoopTick
    \/ LoopExit
    \/ TickNext
    \/ TrigPersist("bg")
    \/ TrigAction("bg")
    \/ TrigEmit("bg")

NextStop ==
    \/ Advance
    \/ BgStep
    \/ StopCall
    \/ JoinReturn

SpecStop == InitStop /\ [][NextStop]_vars

\* the scheduler thread is a running thread: it keeps taking steps
SpecStopFair == SpecStop /\ WF_vars(BgStep)

\* once the stop event is set the scheduler thread ends
StopTerminates == shutdown.stop_event ~> ~is_alive

\* a step in which the scheduler thread fires a schedule or runs an action
BgWork ==
    \/ fired' # fired
    \/ trig["bg"].pc = "act" /\ trig'["bg"] # trig["bg"]

\* C25: after stop() is called the scheduler thread eventually terminates, and
\* once stop() has returned the scheduler thread fires no schedule and runs
\* no schedule action, also when stop() was called in the middle of a tick
C25_CleanShutdown ==
    /\ StopTerminates
    /\ [][shutdown.pc = "returned" => ~BgWork]_vars

(***************************************************************************)
(* SpecEdit: the edit dialog's update_schedule against the scheduler       *)
(* thread.                                                                 *)
(***************************************************************************)
EditDays == {PyStr("all"), PyStr("weekend"), PyList(<<0, 2, 4>>)}
EditDates == StartDays

\* ScheduleWidget.edit_selected_schedule: the updates the dialog passes
EditKwargs ==
    { [name |-> "edited", time |-> <<0, 0>>, actions |-> <<ActLight>>,
       enabled |-> TRUE, days |-> d, date |-> None] : d \in EditDays }
    \cup
    { [name |-> "edited", time |-> <<0, 0>>, actions |-> <<ActLight>>,
       enabled |-> TRUE, date |-> dt, days |-> PyNone] : dt \in EditDates }

NextEdit ==
    \/ Advance
    \/ TickStart
    \/ TickNext
    \/ TrigPersist("bg")
    \/ TrigAction("bg")
    \/ TrigEmit("bg")
    \/ Update(EditKwargs)

SpecEdit == Init /\ [][NextEdit]_vars

\* the schedule was last written by the edit dialog: both rule keys are
\* present and exactly one of them is None
Switched(s) ==
    /\ Has(s, "days") /\ Has(s, "date")
    /\ (s["days"] = PyNone) # (s["date"] = None)

\* the rule the dialog set matches now
NewRuleMatches(s, now) ==
    IF s["days"] # PyNone THEN _day_matches(s, now) ELSE DateOf(now) = s["date"]

\* the schedule the tick evaluates in its next step
TickRef == schedules[NextSlot(schedules, tick.pos)].ref

\* a step of _process_schedules in which a switched schedule is evaluated
EvaluatesSwitched ==
    /\ tick.pc = "iter" /\ trig["bg"].pc = "none" /\ tick' # tick
    /\ IterNext(schedules, tick) = "item"
    /\ Switched(heap[TickRef])

\* C26: after the edit dialog switched a schedule's rule (days with date=None,
\* or date with days=None), a tick that evaluates the schedule does not fail,
\* and it fires the schedule when its time and its new rule match
C26_SwitchedRuleIsUsed ==
    [][EvaluatesSwitched =>
        /\ ~tick'.aborted
        /\ ( /\ _time_matches(heap[TickRef], tick.now)
             /\ NewRuleMatches(heap[TickRef], tick.now)
             /\ ~DebounceBlocks(heap[TickRef], tick.now) )
           => fired' # fired]_vars


(***************************************************************************)
(* SpecTick: the scheduler thread alone, on a configuration file that      *)
(* holds two schedules.                                                    *)
(***************************************************************************)
\* a schedule as a dialog edit to "Every Day" left it in the file: date is null
SavedSwitched == [id |-> 1, name |-> "edited", time |-> <<0, 0>>,
                  actions |-> <<ActLight>>, enabled |-> TRUE,
                  days |-> PyStr("all"), date |-> None]

SavedDaily(id) == [id |-> id, name |-> "daily", time |-> <<0, 0>>,
                   actions |-> <<ActGroup, ActAll>>, enabled |-> TRUE,
                   days |-> PyStr("all")]

TickConfigs ==
    { <<SavedSwitched, SavedDaily(2)>>,
      <<SavedDaily(2), SavedSwitched>>,
      <<SavedDaily(1), SavedDaily(2)>> }

InitTick == InitFrom(TickConfigs)

NextTick ==
    \/ Advance
    \/ TickStart
    \/ TickNext
    \/ TrigPersist("bg")
    \/ TrigAction("bg")
    \/ TrigEmit("bg")

SpecTick == InitTick /\ [][NextTick]_vars

\* the schedules that are due at the time of the last tick and that this
\* tick has not fired
DueUnfired ==
    {k \in DictKeys(schedules) :
        /\ _should_trigger_schedule(heap[DictGet(schedules, k)], tick.now) = "true"
        /\ ~\E f \in fired : f.key = k /\ f.now = tick.now}

\* C27: when the evaluation of one schedule raises during a tick, every other
\* enabled schedule that is due at that tick is still triggered in that tick
C27_FailureIsIsolated ==
    (tick.pc = "sleep" /\ tick.aborted) => DueUnfired = {}

(***************************************************************************)
(* SpecRunNow: run-now on the foreground thread against the ticks of the   *)
(* scheduler thread, around the start of minute 00:01.                     *)
(***************************************************************************)
RunNowConfigs ==
    { << [id |-> 1, name |-> "next", time |-> <<0, 1>>,
          actions |-> <<ActLight>>, enabled |-> TRUE,
          days |-> PyStr("all")] >>,
      << [id |-> 1, name |-> "first", time |-> <<0, 0>>,
          actions |-> <<ActLight>>, enabled |-> TRUE] >> }

InitRunNow == InitFrom(RunNowConfigs)

NextRunNow ==
    \/ Advance
    \/ TickStart
    \/ TickNext
    \/ \E t \in Threads : TrigPersist(t)
    \/ \E t \in Threads : TrigAction(t)
    \/ \E t \in Threads : TrigEmit(t)
    \/ RunNow

SpecRunNow == InitRunNow /\ [][NextRunNow]_vars

\* the wall-clock minute a time lies in
MinuteOf(now) == now \div 60

\* the schedule is enabled and its time, days and date match now
Matches(s, now) ==
    /\ Get(s, "enabled", TRUE)
    /\ _time_matches(s, now)
    /\ Has(s, "days") => _day_matches(s, now)
    /\ Has(s, "date") => (s["date"] # None /\ _date_matches(s, now))

\* the schedule has fired, by a tick or by run-now, within the minute of now
FiredWithin(s, now) ==
    Has(s, "last_run") /\ MinuteOf(s["last_run"]) = MinuteOf(now)

\* a step of _process_schedules that evaluates a schedule during the minute
\* its tick started in
EvaluatesDuringMinute ==
    /\ tick.pc = "iter" /\ trig["bg"].pc = "none" /\ tick' # tick
    /\ IterNext(schedules, tick) = "item"
    /\ MinuteOf(clock) = MinuteOf(tick.now)

\* C28: a tick that evaluates, during minute M, an enabled schedule whose time,
\* days and date match M fires it unless it has already fired within M; a
\* firing in the minute before M does not make the tick skip M
C28_FirstFiringNotSuppressed ==
    [][(/\ EvaluatesDuringMinute
        /\ Matches(heap[TickRef], tick.now)
        /\ ~FiredWithin(heap[TickRef], tick.now))
       => fired' # fired]_vars

\* the ids of the schedules in the configuration
ConfigIds == {heap[config[i]]["id"] : i \in {j \in 1..Len(config) : Has(heap[config[j]], "id")}}

\* no tick and no call of _trigger_schedule is in progress
Quiescent == tick.pc = "sleep" /\ \A t \in Threads : trig[t].pc = "none"

\* C29: whenever no operation is in progress the schedule ids of the
\* scheduler cache are the schedule ids of the configuration; a trigger that
\* was in flight does not put a deleted schedule back into the configuration
C29_CacheAgreesWithConfig ==
    Quiescent => DictKeys(schedules) = ConfigIds

(***************************************************************************)
(* SpecDiscovery: DiscoveryService.discover_devices on the foreground      *)
(* thread against the discovery threads it starts.  The two protocol steps *)
(* are taken by their results.                                             *)
(***************************************************************************)
MaxCalls == 3        \* calls of discover_devices in one run

\* a thread that threading.Thread(...).start() has just started
NewThread == [pc |-> "started", hue |-> FALSE, success |-> FALSE]

\* discover_devices: `if self.discovery_active: return False`, else the thread starts
DiscoverDevices ==
    /\ Len(discovery.returned) < MaxCalls
    /\ discovery' =
         IF discovery.discovery_active
         THEN [discovery EXCEPT !.returned = Append(@, FALSE)]
         ELSE [discovery EXCEPT !.returned = Append(@, TRUE),
                                !.threads = Append(@, NewThread)]
    /\ UNCHANGED <<clock, heap, schedules, config, disk, nextId, tick, trig, ui, fired,
                   probe, shutdown, lmvars>>

DiscoveryStep(i, thread, flag) ==
    /\ discovery' = [discovery EXCEPT !.threads[i] = thread, !.discovery_active = flag]
    /\ UNCHANGED <<clock, heap, schedules, config, disk, nextId, tick, trig, ui, fired,
                   probe, shutdown, lmvars>>

\* _run_discovery: self.discovery_active = True; self.discovery_started.emit()
RunStart(i) ==
    /\ discovery.threads[i].pc = "started"
    /\ DiscoveryStep(i, [discovery.threads[i] EXCEPT !.pc = "hue"], TRUE)

\* hue_success = self._discover_hue_devices(): False when no bridge was found
\* or the step failed
DiscoverHue(i) ==
    /\ discovery.threads[i].pc = "hue"
    /\ \E hue_success \in BOOLEAN :
         DiscoveryStep(i, [discovery.threads[i] EXCEPT !.pc = "lifx", !.hue = hue_success],
                       discovery.discovery_active)

\* lifx_success = self._discover_lifx_devices(); success = hue_success or lifx_success
DiscoverLifx(i) ==
    /\ discovery.threads[i].pc = "lifx"
    /\ \E lifx_success \in BOOLEAN :
         DiscoveryStep(i, [discovery.threads[i] EXCEPT
                               !.pc = "finish",
                               !.success = discovery.threads[i].hue \/ lifx_success],
                       discovery.discovery_active)

\* self.discovery_active = False; self.discovery_finished.emit(success)
RunFinish(i) ==
    /\ discovery.threads[i].pc = "finish"
    /\ DiscoveryStep(i, [discovery.threads[i] EXCEPT !.pc = "finished"], FALSE)

\* a step of discovery thread i
DiscoveryThread(i) ==
    /\ i <= Len(discovery.threads)
    /\ RunStart(i) \/ DiscoverHue(i) \/ DiscoverLifx(i) \/ RunFinish(i)

NextDiscovery ==
    \/ DiscoverDevices
    \/ \E i \in 1..MaxCalls : DiscoveryThread(i)

SpecDiscovery == InitLights /\ [][NextDiscovery]_vars

\* every started thread keeps running
SpecDiscoveryFair ==
    SpecDiscovery /\ \A i \in 1..MaxCalls : WF_vars(DiscoveryThread(i))

\* the discovery threads that have been started and have not finished
Running == {i \in 1..Len(discovery.threads) : discovery.threads[i].pc # "finished"}

\* every discovery run resets the flag and emits discovery_finished
EveryRunFinishes ==
    \A i \in 1..MaxCalls :
        (i <= Len(discovery.threads)) ~> (i <= Len(discovery.threads) /\ i \notin Running)

\* C30: at most one discovery runs at any time: a discover_devices call made
\* while an earlier discovery has not finished returns False and starts no
\* thread; and every discovery run ends by resetting the flag and emitting
\* discovery_finished
C30_SingleFlight ==
    /\ [](Cardinality(Running) <= 1)
    /\ [][(Running # {} /\ discovery'.returned # discovery.returned)
            => /\ discovery'.returned = Append(discovery.returned, FALSE)
               /\ discovery'.threads = discovery.threads]_vars
    /\ EveryRunFinishes
====
